---- MODULE Spec2Model ----
(***************************************************************************)
(* A model of the publish gate, the packaging engine and the publish       *)
(* orchestrator of baro-cli (src/src/publish_gate.rs, src/src/packaging.rs,*)
(* src/src/main.rs).                                                       *)
(*                                                                         *)
(* Strings are sequences of characters (one-character TLA+ strings for     *)
(* ASCII, "U+XXXX" tokens for characters outside ASCII), so that prefix,   *)
(* suffix, length and per-character tests are computed, not assumed.       *)
(* A directory tree is a set of entries [path, kind, content], a path      *)
(* being the sequence of names below the project directory.                *)
(***************************************************************************)
EXTENDS Integers, Sequences, FiniteSets, TLC

VARIABLES
    dir,        \* the project directory: a set of entries
    ignored,    \* the paths of dir that the ignore files (.gitignore, .ignore) match
    call,       \* the arguments of the last publish_gate::run call, <<>> before it
    gate,       \* Some(GateResult) of the last publish_gate::run call, None before it
    archives,   \* the results of the create_archive calls made so far, in order
    dest,       \* the file system below the extraction root: a set of entries
    destPath,   \* Some(path) of the last extract_archive destination, None before it
    now,        \* the wall clock, which advances with every call
    pc,         \* the step execute_publish is at, "idle" before it is called
    ctx,        \* Some(PublishContext) of the execute_publish call, None before it
    stderr,     \* the lines written to standard error, in order
    requests,   \* the requests sent to the API and to the upload URL, in order
    products,   \* the account's products on the server: a set of [slug, id]
    product_id, \* Some(id) once execute_publish has resolved the product
    release,    \* Some(response of create_release) once the release is created
    manifest,   \* Some(Manifest) in .baro/manifest.json, None when there is no file
    status,     \* Some(exit status) once the process has ended, None before
    cmd,        \* Some(command line) of the invocation, None before it
    cwd_name,   \* the name of the project directory
    me,         \* Some(username) once get_me has answered
    slug,       \* Some(slug) once the command has resolved it
    err,        \* Some(error) when the command has returned Err
    inflight,    \* the requests sent and not yet answered
    update_handle, \* the background version check: "none" before it is spawned,
                \* "running", "fetching", then "notice", "quiet" or "panicked"
    input,      \* Some(line) once the confirmation of remake has been read
    returned,   \* Some(status) once main has returned or the process has exited
    latest,     \* the version string is_newer is given as latest
    current,    \* the version string is_newer is given as current
    newer,      \* Some(result) of the is_newer call, None before it
    product,    \* the argument of baro fork: user/slug or user/slug@version
    download,   \* Some(answer) of get_download: the declared hash and the URL
    downloaded, \* Some(bytes) once download_from_r2 has delivered them
    runs        \* the number of commands run on the directory so far

vars == <<dir, ignored, call, gate, archives, dest, destPath, now,
          pc, ctx, stderr, requests, products, product_id, release, manifest, status,
          cmd, cwd_name, me, slug, err, inflight, update_handle, input, returned,
          latest, current, newer, product, download, downloaded, runs>>

\* The variables of the is_newer calls, of the fork runs and of the command
\* sequences.
versionVars == <<latest, current, newer>>

forkVars == <<product, download, downloaded>>

publishVars == <<pc, ctx, stderr, requests, products, product_id, release, manifest, status,
                 cmd, cwd_name, me, slug, err, inflight, update_handle, input, returned,
                 versionVars, forkVars, runs>>

gateVars == <<call, gate>>

packVars == <<archives, dest, destPath, now>>

\* ------------------------------------------------------------------ bounds

GateMaxEntries == 3
PackMaxEntries == 3
PublishMaxEntries == 2
MaxVerLen == 4
MaxDescChars == 51

\* ----------------------------------------------------------------- strings

None == <<>>
Some(x) == <<x>>
IsSome(o) == o /= <<>>
Unwrap(o) == o[1]

Ascii ==
  <<
    " ", "!", "QUOTE", "#", "$", "%", "&", "'", "(", ")", "*", "+",
    ",", "-", ".", "/", "0", "1", "2", "3", "4", "5", "6", "7",
    "8", "9", ":", ";", "<", "=", ">", "?", "@", "A", "B", "C",
    "D", "E", "F", "G", "H", "I", "J", "K", "L", "M", "N", "O",
    "P", "Q", "R", "S", "T", "U", "V", "W", "X", "Y", "Z", "[",
    "BACKSLASH", "]", "^", "_", "BACKTICK", "a", "b", "c", "d", "e", "f", "g",
    "h", "i", "j", "k", "l", "m", "n", "o", "p", "q", "r", "s",
    "t", "u", "v", "w", "x", "y", "z", "{", "|", "}", "~"
  >>

AsciiChars == {Ascii[i] : i \in DOMAIN Ascii}

is_ascii(c) == c \in AsciiChars

\* The code point of each ASCII character (the table starts at the space, 32).
CodePoints == [c \in AsciiChars |-> 31 + (CHOOSE i \in DOMAIN Ascii : Ascii[i] = c)]

Ord(c) == CodePoints[c]

is_ascii_digit(c) == c \in {"0", "1", "2", "3", "4", "5", "6", "7", "8", "9"}

\* The number of bytes of a character in UTF-8, the encoding of a Rust str.
Utf8Width(c) ==
    IF c = "U+00E9" THEN 2
    ELSE IF c = "U+D55C" THEN 3
    ELSE IF c = "U+1F600" THEN 4
    ELSE 1

RECURSIVE bytes_upto(_, _)
bytes_upto(s, n) == IF n = 0 THEN 0 ELSE Utf8Width(s[n]) + bytes_upto(s, n - 1)

\* str::len(): the length of a string in bytes.
str_len(s) == bytes_upto(s, Len(s))

\* s.chars().count(): the length of a string in characters.
chars_count(s) == Len(s)

starts_with(s, p) == Len(s) >= Len(p) /\ SubSeq(s, 1, Len(p)) = p

ends_with(s, x) == Len(s) >= Len(x) /\ SubSeq(s, Len(s) - Len(x) + 1, Len(s)) = x

contains(list, x) == \E i \in DOMAIN list : list[i] = x

Repeat(c, n) == [i \in 1..n |-> c]

Range(s) == {s[i] : i \in DOMAIN s}

\* The permutations of a finite set, as sequences.
Perms(S) ==
    {s \in [1..Cardinality(S) -> S] : \A i, j \in DOMAIN s : s[i] = s[j] => i = j}

\* -------------------------------------------------------- program constants

BUILD_FILES ==
  << <<"C", "a", "r", "g", "o", ".", "t", "o", "m", "l">>,
     <<"p", "a", "c", "k", "a", "g", "e", ".", "j", "s", "o", "n">>,
     <<"M", "a", "k", "e", "f", "i", "l", "e">>,
     <<"C", "M", "a", "k", "e", "L", "i", "s", "t", "s", ".", "t", "x", "t">>,
     <<"p", "y", "p", "r", "o", "j", "e", "c", "t", ".", "t", "o", "m", "l">>,
     <<"s", "e", "t", "u", "p", ".", "p", "y">>,
     <<"g", "o", ".", "m", "o", "d">>,
     <<"b", "u", "i", "l", "d", ".", "g", "r", "a", "d", "l", "e">>,
     <<"p", "o", "m", ".", "x", "m", "l">> >>

SECRET_FILES ==
  << <<"c", "r", "e", "d", "e", "n", "t", "i", "a", "l", "s", ".", "j", "s", "o", "n">>,
     <<"s", "e", "r", "v", "i", "c", "e", "-", "a", "c", "c", "o", "u", "n", "t", ".", "j", "s", "o", "n">>,
     <<"i", "d", "_", "r", "s", "a">>,
     <<"i", "d", "_", "e", "d", "2", "5", "5", "1", "9">> >>

SECRET_EXTENSIONS ==
  << <<".", "p", "e", "m">>,
     <<".", "k", "e", "y">>,
     <<".", "p", "1", "2">>,
     <<".", "p", "f", "x">> >>

README_FILES ==
  << <<"R", "E", "A", "D", "M", "E", ".", "m", "d">>,
     <<"r", "e", "a", "d", "m", "e", ".", "m", "d">>,
     <<"R", "E", "A", "D", "M", "E">> >>

ai_files ==
  << <<"C", "L", "A", "U", "D", "E", ".", "m", "d">>,
     <<".", "c", "u", "r", "s", "o", "r", "r", "u", "l", "e", "s">>,
     <<"A", "G", "E", "N", "T", "S", ".", "m", "d">> >>

LICENSE_FILES ==
  << <<"L", "I", "C", "E", "N", "S", "E">>,
     <<"L", "I", "C", "E", "N", "S", "E", ".", "m", "d">>,
     <<"L", "I", "C", "E", "N", "S", "E", ".", "t", "x", "t">> >>

DOT_ENV == <<".", "e", "n", "v">>

DOT_ENV_EXAMPLE == <<".", "e", "n", "v", ".", "e", "x", "a", "m", "p", "l", "e">>

MIN_DESCRIPTION_LEN == 50

\* --------------------------------------------------------- directory trees

File(path, content) == [path |-> path, kind |-> "file", content |-> content]

Dir(path) == [path |-> path, kind |-> "dir", content |-> <<>>]

Parent(path) == SubSeq(path, 1, Len(path) - 1)

file_name(path) == path[Len(path)]

\* Path::exists() of dir.join(name).
exists(d, name) == \E e \in d : e.path = <<name>>

\* The entries directly below the directory at path p.
Children(d, p) == {e \in d : Len(e.path) = Len(p) + 1 /\ Parent(e.path) = p}

\* An entry can be created where nothing is yet and its parent is a directory.
CanCreate(d, e) ==
    /\ \A x \in d : x.path /= e.path
    /\ \/ Len(e.path) = 1
       \/ \E x \in d : x.path = Parent(e.path) /\ x.kind = "dir"

\* ------------------------------------------------------------ publish gate

CheckFailure(message, names, count, ai_fix_prompt) ==
    [message |-> message, names |-> names, count |-> count,
     ai_fix_prompt |-> ai_fix_prompt]

CheckWarning(message) == [message |-> message]

is_secret_without_example_exemption(name) ==
    \/ starts_with(name, DOT_ENV)
    \/ contains(SECRET_FILES, name)
    \/ \E i \in DOMAIN SECRET_EXTENSIONS : ends_with(name, SECRET_EXTENSIONS[i])

\* The per-entry test of check_secrets.
is_secret(name) ==
    \/ starts_with(name, DOT_ENV) /\ name /= DOT_ENV_EXAMPLE
    \/ contains(SECRET_FILES, name)
    \/ \E i \in DOMAIN SECRET_EXTENSIONS : ends_with(name, SECRET_EXTENSIONS[i])

\* check_secrets: the failures it pushes, given read_dir's listing of the
\* directory (the names of its direct children, in the order read_dir gives).
check_secrets(listing) ==
    LET found_secrets == SelectSeq(listing, is_secret)
    IN  IF found_secrets /= <<>>
        THEN << CheckFailure("Potential secrets found", found_secrets, 0,
                             "Remove or .gitignore these files before publishing") >>
        ELSE <<>>

RECURSIVE regex_loop(_, _, _)
\* The loop of regex_lite's closure from character i on.
regex_loop(s, i, expect_digit) ==
    IF i > Len(s) THEN ~expect_digit
    ELSE IF expect_digit
         THEN IF ~is_ascii_digit(s[i]) THEN FALSE ELSE regex_loop(s, i + 1, FALSE)
         ELSE IF s[i] = "." THEN regex_loop(s, i + 1, TRUE)
         ELSE IF ~is_ascii_digit(s[i]) THEN FALSE
         ELSE regex_loop(s, i + 1, expect_digit)

regex_lite_accepts_trailing_dot(s) ==
    IF s = <<>> THEN FALSE
    ELSE \/ regex_loop(s, 1, TRUE)
         \/ /\ Len(s) > 1
            /\ s[Len(s)] = "."
            /\ regex_loop(SubSeq(s, 1, Len(s) - 1), 1, TRUE)

\* The closure regex_lite returns, applied to s.
regex_lite(s) == IF s = <<>> THEN FALSE ELSE regex_loop(s, 1, TRUE)

\* The version check of run.
version_failures(version) ==
    IF version = <<>> \/ ~regex_lite(version)
    THEN << CheckFailure("Invalid version", <<version>>, 0,
                         "Provide a valid version with --version") >>
    ELSE <<>>

\* The description check of run: desc.len() is the length in bytes.
description_failures(description) ==
    IF IsSome(description) /\ str_len(Unwrap(description)) < MIN_DESCRIPTION_LEN
    THEN << CheckFailure("Description too short", <<>>, str_len(Unwrap(description)),
                         "Add a description of at least 50 characters") >>
    ELSE <<>>

\* The failures run accumulates, in the order of its checks. listing is what
\* read_dir returns for the directory.
run_failures(d, listing, version, description, category_slug, categories) ==
    LET build ==
            IF ~\E i \in DOMAIN BUILD_FILES : exists(d, BUILD_FILES[i])
            THEN << CheckFailure("No build file found", <<>>, 0,
                                 "Create a build file") >>
            ELSE <<>>
        has_readme == \E i \in DOMAIN README_FILES : exists(d, README_FILES[i])
        readme ==
            IF ~has_readme
            THEN << CheckFailure("README.md not found", <<>>, 0,
                                 "Create a README.md") >>
            ELSE <<>>
        category ==
            IF ~\E i \in DOMAIN categories : categories[i] = category_slug
            THEN << CheckFailure("Invalid category", <<category_slug>>, 0,
                                 "Use --category with a valid slug") >>
            ELSE <<>>
    IN  build \o readme \o check_secrets(listing)
        \o version_failures(version)
        \o description_failures(description) \o category

\* The warnings run accumulates.
run_warnings(d) ==
    LET has_ai == \E i \in DOMAIN ai_files : exists(d, ai_files[i])
        has_license == \E i \in DOMAIN LICENSE_FILES : exists(d, LICENSE_FILES[i])
    IN  (IF ~has_ai THEN << CheckWarning("No AI context files found") >> ELSE <<>>)
        \o (IF ~has_license THEN << CheckWarning("No LICENSE file found") >> ELSE <<>>)

run_blocked_by_warnings(d, listing, version, description, category_slug, categories) ==
    LET failures == run_failures(d, listing, version, description, category_slug,
                                 categories)
        warnings == run_warnings(d)
    IN  [passed |-> failures = <<>> /\ warnings = <<>>,
         failures |-> failures, warnings |-> warnings]

\* publish_gate::run: the GateResult it returns.
run(d, listing, version, description, category_slug, categories) ==
    LET failures == run_failures(d, listing, version, description, category_slug,
                                 categories)
        warnings == run_warnings(d)
    IN  [passed |-> failures = <<>>, failures |-> failures, warnings |-> warnings]

\* read_dir of the project directory: the names of its direct children in
\* some order (the order is the platform's and the file system's).
read_dir(d) == Perms({file_name(e.path) : e \in Children(d, <<>>)})

\* ------------------------------------------------ names used by the inputs

N_env_local == <<".", "e", "n", "v", ".", "l", "o", "c", "a", "l">>

N_envrc == <<".", "e", "n", "v", "r", "c">>

N_envs == <<".", "e", "n", "v", "s">>

N_cert_pem == <<"c", "e", "r", "t", ".", "p", "e", "m">>

N_main_rs == <<"m", "a", "i", "n", ".", "r", "s">>

N_envoy == <<"e", "n", "v", "o", "y", ".", "t", "x", "t">>

N_pem == <<"p", "e", "m">>

N_sub == <<"s", "u", "b">>

N_src == <<"s", "r", "c">>

N_keep_txt == <<"k", "e", "e", "p", ".", "t", "x", "t">>

N_out == <<"o", "u", "t">>

N_tmp == <<"t", "m", "p">>

V_1_0_0 == <<"1", ".", "0", ".", "0">>

V_trailing == <<"1", ".", "0", ".">>

developer_tools == <<"d", "e", "v", "e", "l", "o", "p", "e", "r", "-", "t", "o", "o", "l", "s">>

productivity == <<"p", "r", "o", "d", "u", "c", "t", "i", "v", "i", "t", "y">>

nonexistent == <<"n", "o", "n", "e", "x", "i", "s", "t", "e", "n", "t">>

TooShort == <<"T", "o", "o", " ", "s", "h", "o", "r", "t">>

\* The category slugs of tests::sample_categories.
sample_categories == <<developer_tools, productivity>>

\* tests::setup_valid_dir: a build file and a README.
setup_valid_dir == {File(<<BUILD_FILES[1]>>, <<>>), File(<<README_FILES[1]>>, <<>>)}

\* The entries the gate runs draw the project directory from: every kind of
\* name the checks tell apart, at the first level and below it.
GateFiles ==
    {BUILD_FILES[1], BUILD_FILES[3], README_FILES[1], README_FILES[3],
     DOT_ENV, DOT_ENV_EXAMPLE, N_env_local, N_envrc,
     SECRET_FILES[1], SECRET_FILES[3], N_cert_pem, N_pem, N_envoy,
     ai_files[1], LICENSE_FILES[1], N_main_rs}

GateEntries ==
    {File(<<n>>, <<>>) : n \in GateFiles}
    \cup {Dir(<<N_sub>>), Dir(<<DOT_ENV>>), Dir(<<BUILD_FILES[3]>>),
          File(<<N_sub, N_env_local>>, <<>>), File(<<N_sub, N_cert_pem>>, <<>>),
          File(<<N_sub, BUILD_FILES[1]>>, <<>>)}

GateVersions == {V_1_0_0, V_trailing}

GateDescriptions == {None, Some(TooShort), Some(Repeat("U+D55C", 17))}

GateCategories == {developer_tools, nonexistent}

VerChars == {"0", "1", ".", "a"}

VersionStrings == UNION {[1..n -> VerChars] : n \in 0..MaxVerLen}

DescChars == {"a", "U+00E9", "U+D55C"}

DescriptionStrings ==
    {None}
    \cup {Some(Repeat(c, n)) : c \in DescChars, n \in 0..MaxDescChars}
    \cup {Some(TooShort \o Repeat(c, n)) : c \in DescChars, n \in {14, 20, 41}}

\* ------------------------------------------------------- the gate's runs

\* No publish command has been started and there is no local record.
NoVersionCheck == latest = <<>> /\ current = <<>> /\ newer = None

NoFork == product = <<>> /\ download = None /\ downloaded = None

NoPublishRun ==
    /\ pc = "idle"
    /\ ctx = None
    /\ stderr = <<>>
    /\ requests = <<>>
    /\ products = {}
    /\ product_id = None
    /\ release = None
    /\ manifest = None
    /\ status = None
    /\ cmd = None
    /\ cwd_name = <<"t", "o", "o", "l">>
    /\ me = None
    /\ slug = None
    /\ err = None
    /\ inflight = {}
    /\ update_handle = "none"
    /\ input = None
    /\ returned = None

NoPublish == NoPublishRun /\ NoVersionCheck /\ NoFork /\ runs = 0

\* The user creates a file or a directory in the project directory.
GateCreateEntry ==
    /\ gate = None
    /\ Cardinality(dir) < GateMaxEntries
    /\ \E e \in GateEntries :
         /\ CanCreate(dir, e)
         /\ dir' = dir \cup {e}
    /\ UNCHANGED <<ignored, gateVars, packVars, publishVars>>

\* One call of publish_gate::run on the project directory.
GateCall(version, description, category_slug, categories) ==
    /\ gate = None
    /\ \E listing \in read_dir(dir) :
         gate' = Some(run(dir, listing, version, description, category_slug,
                          categories))
    /\ call' = [version |-> version, description |-> description,
                category_slug |-> category_slug, categories |-> categories]
    /\ UNCHANGED <<dir, ignored, packVars, publishVars>>

RunGate ==
    \E v \in GateVersions, d \in GateDescriptions, c \in GateCategories :
        GateCall(v, d, c, sample_categories)

RunGateVersion ==
    \E v \in VersionStrings : GateCall(v, None, developer_tools, sample_categories)

RunGateDescription ==
    \E d \in DescriptionStrings :
        GateCall(V_1_0_0, d, developer_tools, sample_categories)

GateInit ==
    /\ dir = {}
    /\ ignored = {}
    /\ call = <<>>
    /\ gate = None
    /\ archives = <<>>
    /\ dest = {}
    /\ destPath = None
    /\ now = 0
    /\ NoPublish

ArgsInit ==
    /\ dir \in {{}, setup_valid_dir}
    /\ ignored = {}
    /\ call = <<>>
    /\ gate = None
    /\ archives = <<>>
    /\ dest = {}
    /\ destPath = None
    /\ now = 0
    /\ NoPublish

GateNext == GateCreateEntry \/ RunGate

ArgsNext == RunGateVersion \/ RunGateDescription

\* The gate on every small project directory.
SpecGate == GateInit /\ [][GateNext]_vars

\* The gate on every short version string and on descriptions of every length.
SpecArgs == ArgsInit /\ [][ArgsNext]_vars

\* ----------------------------------------------------- claims on the gate

HasFailure(g, message) == \E i \in DOMAIN g.failures : g.failures[i].message = message

CountFailures(g, message) ==
    Cardinality({i \in DOMAIN g.failures : g.failures[i].message = message})

ChildNames(d) == {file_name(e.path) : e \in Children(d, <<>>)}

DigitChars == {"0", "1", "2", "3", "4", "5", "6", "7", "8", "9"}

\* The language of ^\d+(\.\d+)*$: digits and dots only, at least one
\* character, no dot first or last, no two dots in a row.
MatchesVersionPattern(s) ==
    /\ Len(s) >= 1
    /\ \A i \in DOMAIN s : s[i] \in DigitChars \/ s[i] = "."
    /\ s[1] /= "."
    /\ s[Len(s)] /= "."
    /\ \A i \in 1..(Len(s) - 1) : ~(s[i] = "." /\ s[i + 1] = ".")

\* The rule of the secrets check as the specification words it.
FlaggedBySecretRule(name) ==
    \/ /\ Len(name) >= 4
       /\ \A i \in 1..4 : name[i] = DOT_ENV[i]
       /\ name /= DOT_ENV_EXAMPLE
    \/ name \in Range(SECRET_FILES)
    \/ \E x \in Range(SECRET_EXTENSIONS) :
           /\ Len(name) >= Len(x)
           /\ \A i \in 1..Len(x) : name[Len(name) - Len(x) + i] = x[i]

\* C2: the failure list holds exactly one failure for each violated check
\* and none for a satisfied one, whatever the other checks find; a directory
\* without a build file fails the gate with the build-file message.
C2_OneFailurePerViolatedCheck ==
    gate /= None =>
        LET g == Unwrap(gate)
            d == call.description
            Expect(violated) == IF violated THEN 1 ELSE 0
            no_build == \A n \in Range(BUILD_FILES) : n \notin ChildNames(dir)
            no_readme == \A n \in Range(README_FILES) : n \notin ChildNames(dir)
            secrets == \E n \in ChildNames(dir) : FlaggedBySecretRule(n)
            bad_version == ~MatchesVersionPattern(call.version)
            short == IsSome(d) /\ chars_count(Unwrap(d)) < MIN_DESCRIPTION_LEN
            bad_category == call.category_slug \notin Range(call.categories)
        IN  /\ CountFailures(g, "No build file found") = Expect(no_build)
            /\ CountFailures(g, "README.md not found") = Expect(no_readme)
            /\ CountFailures(g, "Potential secrets found") = Expect(secrets)
            /\ CountFailures(g, "Invalid version") = Expect(bad_version)
            /\ CountFailures(g, "Description too short") = Expect(short)
            /\ CountFailures(g, "Invalid category") = Expect(bad_category)
            /\ Len(g.failures) = Expect(no_build) + Expect(no_readme)
                   + Expect(secrets) + Expect(bad_version) + Expect(short)
                   + Expect(bad_category)
            /\ no_build => ~g.passed /\ HasFailure(g, "No build file found")

\* C3: the gate records no "Invalid version" failure iff the version
\* matches ^\d+(\.\d+)*$.
C3_VersionAcceptedIffPattern ==
    gate /= None =>
        (~HasFailure(Unwrap(gate), "Invalid version")
            <=> MatchesVersionPattern(call.version))

C3_Witness ==
    /\ gate /= None
    /\ call.version = <<"1", ".", "0", "1">>
    /\ ~HasFailure(Unwrap(gate), "Invalid version")

\* C4: the gate records a "Description too short" failure iff a description
\* is supplied and has fewer than 50 characters, and the count it reports is
\* the description's character count.
C4_DescriptionCheckCountsCharacters ==
    gate /= None =>
        LET g == Unwrap(gate)
            d == call.description
        IN  /\ HasFailure(g, "Description too short")
                 <=> (IsSome(d) /\ chars_count(Unwrap(d)) < MIN_DESCRIPTION_LEN)
            /\ \A i \in DOMAIN g.failures :
                   g.failures[i].message = "Description too short"
                       => g.failures[i].count = chars_count(Unwrap(d))

EXCLUDED_DIRS ==
  << <<".", "g", "i", "t">>,
     <<".", "b", "a", "r", "o">>,
     <<"t", "a", "r", "g", "e", "t">>,
     <<"n", "o", "d", "e", "_", "m", "o", "d", "u", "l", "e", "s">>,
     <<".", "n", "e", "x", "t">> >>

filter_entry_entering_every_directory(e) ==
    IF e.kind = "dir" THEN TRUE
    ELSE ~starts_with(file_name(e.path), DOT_ENV)

\* The closure given to WalkBuilder::filter_entry: TRUE keeps the entry.
filter_entry(e) ==
    LET name == file_name(e.path)
    IN  IF e.kind = "dir" THEN ~contains(EXCLUDED_DIRS, name)
        ELSE IF starts_with(name, DOT_ENV) THEN FALSE
        ELSE TRUE

\* The walker skips an entry that an ignore rule matches (git_ignore,
\* git_exclude and the .ignore files; a rule is a name here) or that the
\* filter rejects; hidden(false) keeps the dot files.
skip_entry(e, ign) == file_name(e.path) \in ign \/ ~filter_entry(e)

RECURSIVE walk_list(_, _, _, _)
\* The entries the walker yields for the siblings in list and what is below
\* them, depth first; order is the order in which read_dir lists entries.
\* A skipped directory is not descended.
walk_list(d, ign, order, list) ==
    IF list = <<>> THEN <<>>
    ELSE LET e == Head(list)
             below == SelectSeq(order, LAMBDA x : x \in Children(d, e.path))
         IN  (IF skip_entry(e, ign) THEN <<>>
              ELSE IF e.kind = "dir" THEN <<e>> \o walk_list(d, ign, order, below)
              ELSE <<e>>)
             \o walk_list(d, ign, order, Tail(list))

\* The entries of `for entry in walker` other than the root (path == dir).
walker(d, ign, order) ==
    walk_list(d, ign, order, SelectSeq(order, LAMBDA x : x \in Children(d, <<>>)))

append_entry_files_only(e) ==
    IF e.kind = "file" THEN << [path |-> e.path, kind |-> "file", content |-> e.content] >>
    ELSE <<>>

\* The archive member appended for a walked entry: append_path_with_name for
\* a file, append_dir for a directory, under the path relative to dir.
append_entry(e) ==
    IF e.kind = "file" THEN << [path |-> e.path, kind |-> "file", content |-> e.content] >>
    ELSE IF e.kind = "dir" THEN << [path |-> e.path, kind |-> "dir", content |-> <<>>] >>
    ELSE <<>>

RECURSIVE append_all(_)
append_all(entries) ==
    IF entries = <<>> THEN <<>>
    ELSE append_entry(Head(entries)) \o append_all(Tail(entries))

\* A string as bytes (ASCII).
Bytes(str) == [i \in DOMAIN str |-> Ord(str[i])]

Chr(b) == Ascii[b - 31]

RECURSIVE PathChars(_)
\* A relative path as one string, its components joined by "/".
PathChars(path) ==
    IF Len(path) = 1 THEN path[1]
    ELSE path[1] \o <<"/">> \o PathChars(Tail(path))

RECURSIVE SplitPath(_)
SplitPath(chars) ==
    IF \E i \in DOMAIN chars : chars[i] = "/"
    THEN LET i == CHOOSE k \in DOMAIN chars :
                      chars[k] = "/" /\ \A j \in 1..(k - 1) : chars[j] /= "/"
         IN  <<SubSeq(chars, 1, i - 1)>> \o SplitPath(SubSeq(chars, i + 1, Len(chars)))
    ELSE <<chars>>

TYPE_FILE == 48

TYPE_DIR == 53

\* One member of the tar stream: type flag, name length, name, size, data.
TarMember(m) ==
    LET name == Bytes(PathChars(m.path))
    IN  <<IF m.kind = "dir" THEN TYPE_DIR ELSE TYPE_FILE, Len(name)>> \o name
        \o <<Len(m.content)>> \o m.content

RECURSIVE TarMembers(_)
TarMembers(members) ==
    IF members = <<>> THEN <<>>
    ELSE TarMember(Head(members)) \o TarMembers(Tail(members))

\* Builder::into_inner: the members followed by the end-of-archive mark.
TarBytes(members) == TarMembers(members) \o <<0>>

RECURSIVE TarParse(_, _)
\* Archive::entries: the members of a tar stream from byte i on.
TarParse(bytes, i) ==
    IF i > Len(bytes) \/ bytes[i] = 0 THEN <<>>
    ELSE LET n == bytes[i + 1]
             name == SubSeq(bytes, i + 2, i + 1 + n)
             size == bytes[i + 2 + n]
             data == SubSeq(bytes, i + 3 + n, i + 2 + n + size)
         IN  << [path |-> SplitPath([k \in DOMAIN name |-> Chr(name[k])]),
                 kind |-> IF bytes[i] = TYPE_DIR THEN "dir" ELSE "file",
                 content |-> data] >>
             \o TarParse(bytes, i + 3 + n + size)

\* The indices at which a run of equal bytes starts.
RunStarts(data) == {i \in DOMAIN data : i = 1 \/ data[i] /= data[i - 1]}

\* The compressor, as run-length coding: (run length, byte) pairs.
Deflate(data) ==
    LET starts == RunStarts(data)
        start(k) == CHOOSE i \in starts : Cardinality({j \in starts : j <= i}) = k
        end(k) == IF k = Cardinality(starts) THEN Len(data) ELSE start(k + 1) - 1
    IN  [c \in 1..(2 * Cardinality(starts)) |->
            IF c % 2 = 1 THEN end((c + 1) \div 2) - start((c + 1) \div 2) + 1
            ELSE data[start(c \div 2)]]

RECURSIVE InflateRuns(_, _, _)
\* The bytes of the runs lo..hi of a run-length code.
InflateRuns(code, lo, hi) ==
    IF lo > hi THEN <<>>
    ELSE IF lo = hi THEN Repeat(code[2 * lo], code[2 * lo - 1])
    ELSE LET mid == (lo + hi) \div 2
         IN  InflateRuns(code, lo, mid) \o InflateRuns(code, mid + 1, hi)

Inflate(code) == InflateRuns(code, 1, Len(code) \div 2)

RECURSIVE SumBytes(_, _, _)
\* The sum of the bytes lo..hi, modulo 256.
SumBytes(data, lo, hi) ==
    IF lo > hi THEN 0
    ELSE IF lo = hi THEN data[lo] % 256
    ELSE LET mid == (lo + hi) \div 2
         IN  (SumBytes(data, lo, mid) + SumBytes(data, mid + 1, hi)) % 256

GZ_HEADER_LEN == 7

\* The gzip member GzEncoder writes: magic, method, flags, mtime, xfl, os,
\* the compressed data, a checksum and the length of the data.
GzMember(data, mtime) ==
    <<31, 139, 8, 0, mtime, 0, 255>> \o Deflate(data)
    \o <<SumBytes(data, 1, Len(data)), Len(data) % 256>>

GzEncode_stamps_call_time(data, time) == GzMember(data, time)

\* GzEncoder::new(buf, Compression::default()) ... finish(): the header's
\* mtime is 0, whatever the time of the call.
GzEncode(data, time) == GzMember(data, 0)

\* GzDecoder: the data of a gzip member.
GzDecode(bytes) == Inflate(SubSeq(bytes, GZ_HEADER_LEN + 1, Len(bytes) - 2))

DIGEST_LEN == 32

RECURSIVE Absorb(_, _, _)
\* The state after the bytes lo..hi have gone through update: every byte
\* counts, and so does its position.
Absorb(bytes, lo, hi) ==
    IF lo > hi THEN 1
    ELSE IF lo = hi THEN ((bytes[lo] + 7) * (31 * lo + 1)) % 65521
    ELSE LET mid == (lo + hi) \div 2
         IN  (Absorb(bytes, lo, mid) * 31 + Absorb(bytes, mid + 1, hi)) % 65521

\* Sha256::new().update(bytes).finalize(): a digest of 32 bytes. The
\* compression function is a stand-in; the length and the dependence on
\* every input byte are SHA-256's.
Sha256(bytes) ==
    LET h == Absorb(bytes, 1, Len(bytes))
    IN  [i \in 1..DIGEST_LEN |-> ((h + i) * (2 * i + 1)) % 256]

HexDigits == <<"0", "1", "2", "3", "4", "5", "6", "7", "8", "9",
               "a", "b", "c", "d", "e", "f">>

\* format!("{:x}", digest): two lowercase hexadecimal digits per byte.
format_lower_hex(digest) ==
    [k \in 1..(2 * Len(digest)) |->
        IF k % 2 = 1 THEN HexDigits[(digest[(k + 1) \div 2] \div 16) + 1]
        ELSE HexDigits[(digest[k \div 2] % 16) + 1]]

create_archive_hashing_content(d, ign, order, time) ==
    LET tar == TarBytes(append_all(walker(d, ign, order)))
    IN  [bytes |-> GzEncode(tar, time), hash |-> format_lower_hex(Sha256(tar))]

\* packaging::create_archive on directory d, under ignore rules ign, when
\* read_dir lists entries in `order` and the call is made at `time`.
create_archive(d, ign, order, time) ==
    LET members == append_all(walker(d, ign, order))
        bytes == GzEncode(TarBytes(members), time)
        hash == format_lower_hex(Sha256(bytes))
    IN  [bytes |-> bytes, hash |-> hash]

\* The directories create_dir_all(path) makes sure exist.
create_dir_all(path) == {Dir(SubSeq(path, 1, k)) : k \in 1..Len(path)}

\* packaging::extract_archive into destination path p of file system fs:
\* the destination and its ancestors, then every member under p (unpack
\* creates the parent directories a member needs).
extract_archive(bytes, fs, p) ==
    LET members == TarParse(GzDecode(bytes), 1)
    IN  fs \cup create_dir_all(p)
           \cup UNION {create_dir_all(p \o Parent(members[i].path)) : i \in DOMAIN members}
           \cup {[path |-> p \o members[i].path, kind |-> members[i].kind,
                  content |-> members[i].content] : i \in DOMAIN members}

\* ---------------------------------------------------- the packaging runs

N_config == <<"c", "o", "n", "f", "i", "g">>

N_lib_rs == <<"l", "i", "b", ".", "r", "s">>

N_debug == <<"d", "e", "b", "u", "g">>

N_secret == <<"s", "e", "c", "r", "e", "t">>

\* The entries the packaging runs draw the project directory from: plain
\* files and directories, excluded directories at the first level and below
\* it, a file named like an excluded directory, and '.env'-prefixed files and
\* directories.
PackEntries ==
    {File(<<N_main_rs>>, <<7, 7, 7>>),
     File(<<DOT_ENV>>, <<83, 61, 120>>),
     Dir(<<DOT_ENV>>),
     Dir(<<N_src>>),
     Dir(<<EXCLUDED_DIRS[1]>>),
     File(<<EXCLUDED_DIRS[3]>>, <<1>>),
     File(<<N_src, N_lib_rs>>, <<>>),
     File(<<N_src, N_env_local>>, <<83>>),
     Dir(<<N_src, EXCLUDED_DIRS[3]>>),
     File(<<N_src, EXCLUDED_DIRS[3], N_debug>>, <<2, 2>>),
     File(<<EXCLUDED_DIRS[1], N_config>>, <<3>>),
     File(<<DOT_ENV, N_secret>>, <<83, 83>>)}

\* The sets of names the ignore files may exclude.
IgnoreRules == {{}, {N_lib_rs}}

DestPaths == {<<N_out>>, <<N_tmp, N_out>>}

MaxArchives == 2

RepeatMaxEntries == 2

\* The user creates a file or a directory in the project directory.
PackCreateEntry ==
    /\ archives = <<>>
    /\ Cardinality(dir) < PackMaxEntries
    /\ \E e \in PackEntries :
         /\ CanCreate(dir, e)
         /\ dir' = dir \cup {e}
    /\ UNCHANGED <<ignored, gateVars, packVars, publishVars>>

\* The same, for the runs that archive a directory several times.
RepeatCreateEntry ==
    /\ archives = <<>>
    /\ Cardinality(dir) < RepeatMaxEntries
    /\ \E e \in PackEntries :
         /\ CanCreate(dir, e)
         /\ dir' = dir \cup {e}
    /\ UNCHANGED <<ignored, gateVars, packVars, publishVars>>

\* One call of packaging::create_archive on the project directory; read_dir
\* lists the entries in an order of the file system's choosing.
CreateArchive ==
    /\ Len(archives) < MaxArchives
    /\ \E order \in Perms(dir) :
         archives' = Append(archives, create_archive(dir, ignored, order, now + 1))
    /\ now' = now + 1
    /\ UNCHANGED <<dir, ignored, gateVars, dest, destPath, publishVars>>

\* The first call of packaging::create_archive on the project directory.
CreateFirstArchive ==
    /\ archives = <<>>
    /\ CreateArchive

\* One call of packaging::extract_archive on the bytes of an archive made
\* before, into a destination that does not exist yet.
ExtractArchive ==
    /\ destPath = None
    /\ \E i \in DOMAIN archives, p \in DestPaths :
         /\ dest' = extract_archive(archives[i].bytes, dest, p)
         /\ destPath' = Some(p)
    /\ UNCHANGED <<dir, ignored, gateVars, archives, now, publishVars>>

PackInit ==
    /\ dir = {}
    /\ ignored \in IgnoreRules
    /\ call = <<>>
    /\ gate = None
    /\ archives = <<>>
    /\ dest = {}
    /\ destPath = None
    /\ now = 0
    /\ NoPublish

PackNext == PackCreateEntry \/ CreateFirstArchive \/ ExtractArchive

RepeatNext == RepeatCreateEntry \/ CreateArchive

\* create_archive and extract_archive on every small project directory.
SpecPack == PackInit /\ [][PackNext]_vars

\* create_archive, called again and again on a project directory that does
\* not change.
SpecRepeat == PackInit /\ [][RepeatNext]_vars

\* ------------------------------------------------- the publish orchestrator

\* types::Manifest.
Manifest(origin, cloned_at, file_hash, s, id, publisher, version) ==
    [origin |-> origin, cloned_at |-> cloned_at, file_hash |-> file_hash,
     slug |-> s, product_id |-> id, publisher |-> publisher, version |-> version]

\* main::PublishContext, with the fields the steps of execute_publish read.
PublishContext(s, product_desc, category_slug, version, existing_manifest) ==
    [slug |-> s, product_desc |-> product_desc, category_slug |-> category_slug,
     version |-> version, existing_manifest |-> existing_manifest]

\* origin.splitn(2, '/').collect(): at most two parts, split at the first '/'.
splitn2(s) ==
    IF \E i \in DOMAIN s : s[i] = "/"
    THEN LET i == CHOOSE k \in DOMAIN s : s[k] = "/" /\ \A j \in 1..(k - 1) : s[j] /= "/"
         IN  <<SubSeq(s, 1, i - 1), SubSeq(s, i + 1, Len(s))>>
    ELSE <<s>>

\* What the steps of a command leave alone: the files of the project
\* directory and the file system around it.
hostVars == <<dir, ignored, dest, destPath, cwd_name, versionVars, forkVars, runs>>

\* The command returns Err(e), main returns it, and the process ends with
\* status 1.
Fail(e) ==
    /\ pc' = "exit"
    /\ status' = Some(1)
    /\ err' = Some(e)

\* The command goes on to its next await point.
Goto(p) ==
    /\ pc' = p
    /\ UNCHANGED <<status, err>>

\* A request leaves: the future of the call is polled for the first time.
Send(op, request) ==
    /\ op \notin inflight
    /\ requests' = Append(requests, request)
    /\ inflight' = inflight \cup {op}

\* The answer to a request arrives, or the request fails: .await returns.
Recv(op) ==
    /\ op \in inflight
    /\ inflight' = inflight \ {op}
    /\ UNCHANGED requests

STARTING_VERSIONS_with_2_0_0 ==
    << <<"0", ".", "0", ".", "1">>, <<"0", ".", "1", ".", "0">>,
       <<"1", ".", "0", ".", "0">>, <<"2", ".", "0", ".", "0">> >>

\* const STARTING_VERSIONS: the versions publish accepts without a record.
STARTING_VERSIONS ==
    << <<"0", ".", "0", ".", "1">>, <<"0", ".", "1", ".", "0">>,
       <<"1", ".", "0", ".", "0">> >>

is_ascii_lowercase(c) == is_ascii(c) /\ Ord(c) >= 97 /\ Ord(c) <= 122

is_ascii_uppercase(c) == is_ascii(c) /\ Ord(c) >= 65 /\ Ord(c) <= 90

is_ascii_alphanumeric(c) ==
    is_ascii_lowercase(c) \/ is_ascii_uppercase(c) \/ is_ascii_digit(c)

to_lowercase_keeping_case(c) == c

\* char::to_lowercase for the characters of the model.
to_lowercase(c) == IF is_ascii_uppercase(c) THEN Chr(Ord(c) + 32) ELSE c

\* utils::dir_to_slug: the directory name in lowercase, spaces replaced by
\* hyphens.
dir_to_slug(name) ==
    [i \in DOMAIN name |->
        IF to_lowercase(name[i]) = " " THEN "-" ELSE to_lowercase(name[i])]

validate_slug_accepting_any_characters(s) ==
    IF s = <<>> THEN FALSE
    ELSE is_ascii_alphanumeric(s[1]) /\ is_ascii_alphanumeric(s[Len(s)])

\* main::validate_slug.
validate_slug(s) ==
    IF s = <<>> THEN FALSE
    ELSE IF ~is_ascii_alphanumeric(s[1]) \/ ~is_ascii_alphanumeric(s[Len(s)])
         THEN FALSE
         ELSE \A i \in DOMAIN s :
                  is_ascii_lowercase(s[i]) \/ is_ascii_digit(s[i]) \/ s[i] = "-"

\* utils::detect_metadata: the name and the description found in Cargo.toml
\* or package.json. The build files of the directories drawn hold no name
\* and no description key, so nothing is detected.
detect_metadata(d) == <<None, None>>

N_tool == <<"t", "o", "o", "l">>

N_me == <<"m", "e">>

N_remix == <<"r", "e", "m", "i", "x">>

N_bad_slug == <<"-", "x">>

Origin_bob_tool == <<"b", "o", "b", "/", "t", "o", "o", "l">>

Origin_me_tool == <<"m", "e", "/", "t", "o", "o", "l">>

V_0_9_0 == <<"0", ".", "9", ".", "0">>

V_2_0_0 == <<"2", ".", "0", ".", "0">>

\* The local records a command may find: none; the record fork leaves (an
\* origin, no slug, no product id), forked from another account or from
\* one's own; the record init leaves (a slug only); the record of a product
\* published before; and the record of a fork remade before.
ManifestsOnDisk ==
    {None,
     Some(Manifest(Some(Origin_bob_tool), Some("2026-01-01T00:00:00Z"), Some("abc"),
                   None, None, None, V_0_9_0)),
     Some(Manifest(Some(Origin_me_tool), Some("2026-01-01T00:00:00Z"), Some("abc"),
                   None, None, None, V_0_9_0)),
     Some(Manifest(None, None, None, Some(N_tool), None, None,
                   <<"0", ".", "0", ".", "0">>)),
     Some(Manifest(None, None, None, Some(N_tool), Some("p0"), Some(N_me), V_0_9_0)),
     Some(Manifest(Some(Origin_bob_tool), Some("2026-01-01T00:00:00Z"), Some("abc"),
                   Some(N_tool), Some("p0"), Some(N_me), V_0_9_0))}

\* The directory names: one that gives a valid slug and one that does not.
CwdNames == {<<"M", "y", " ", "T", "o", "o", "l">>, <<"a", "_", "b">>}

\* The files the publish runs draw the project directory from.
PublishEntries ==
    {File(<<BUILD_FILES[1]>>, <<>>), File(<<README_FILES[1]>>, <<35>>),
     File(<<LICENSE_FILES[1]>>, <<>>)}

PublishVersions == {V_1_0_0, V_2_0_0}

PublishDescriptions == {None, Some(Repeat("a", 50))}

\* The command lines: baro publish and baro remake with their flags.
CommandLine(name, version, slug_flag, category, description_flag) ==
    [name |-> name, version |-> version, slug_flag |-> slug_flag,
     category |-> category, description_flag |-> description_flag]

PublishCommands ==
    {CommandLine("publish", v, None, c, d) :
        v \in PublishVersions, c \in {None, Some(developer_tools)},
        d \in PublishDescriptions}

RemakeCommands ==
    {CommandLine("remake", V_1_0_0, sf, Some(developer_tools), Some(Repeat("a", 50))) :
        sf \in {None, Some(N_remix), Some(N_tool), Some(N_bad_slug)}}

\* The user creates a file or a directory in the project directory.
PublishCreateEntry ==
    /\ pc = "idle"
    /\ Cardinality(dir) < PublishMaxEntries
    /\ \E e \in PublishEntries :
         /\ CanCreate(dir, e)
         /\ dir' = dir \cup {e}
    /\ UNCHANGED <<ignored, gateVars, packVars, publishVars>>

\* main: the user runs baro publish or baro remake; main spawns the
\* background version check and the command starts with auth::get_token.
main_with(commands) ==
    /\ pc = "idle"
    /\ \E c \in commands : cmd' = Some(c)
    /\ update_handle' = "running"
    /\ pc' = "get_token"
    /\ UNCHANGED <<hostVars, input, returned, gateVars, archives, now, ctx, stderr, requests, products,
                   product_id, release, manifest, status, me, slug, err, inflight>>

main == main_with(PublishCommands \cup RemakeCommands)

\* update_check::check_and_notify, the task main spawns: with a cached answer
\* younger than a day (or no configuration directory) it ends at once, with
\* a notice when the cached version is newer; a cached time in the future
\* makes now_secs() - checked_at overflow, a panic in a build with overflow
\* checks; otherwise fetch_latest_version, a request to the releases URL,
\* whose answer or failure ends it. The task runs beside the command until
\* main returns.
check_and_notify ==
    /\ returned = None
    /\ \/ /\ update_handle = "running"
          /\ update_handle' \in {"notice", "quiet", "panicked", "fetching"}
       \/ /\ update_handle = "fetching"
          /\ update_handle' \in {"notice", "quiet"}
    /\ UNCHANGED <<hostVars, gateVars, packVars, pc, ctx, stderr, requests, products,
                   product_id, release, manifest, status, cmd, me, slug, err, inflight,
                   input, returned>>

main_return_failing_on_panic ==
    /\ pc = "exit"
    /\ returned = None
    /\ stderr' = IF update_handle = "notice"
                 THEN Append(stderr, [level |-> "NOTICE", message |-> "Update available"])
                 ELSE stderr
    /\ returned' = IF update_handle = "panicked" THEN Some(101) ELSE status
    /\ UNCHANGED <<hostVars, gateVars, packVars, pc, ctx, requests, products,
                   product_id, release, manifest, status, cmd, me, slug, err, inflight,
                   input, update_handle>>

\* The end of main: the command has returned; main awaits the handle of the
\* version check for at most 100 ms, prints the notice if the task has
\* ended with one, and returns the result of the command. A task that has
\* not ended, has ended without notice or has panicked prints nothing.
main_return ==
    /\ pc = "exit"
    /\ returned = None
    /\ stderr' = IF update_handle = "notice"
                 THEN Append(stderr, [level |-> "NOTICE", message |-> "Update available"])
                 ELSE stderr
    /\ returned' = status
    /\ UNCHANGED <<hostVars, gateVars, packVars, pc, ctx, requests, products,
                   product_id, release, manifest, status, cmd, me, slug, err, inflight,
                   input, update_handle>>

\* auth::get_token: without stored credentials an error; with a token that
\* does not expire within five minutes that token; otherwise refresh_token,
\* a request to the identity service.
get_token ==
    /\ pc = "get_token"
    /\ \/ /\ inflight = {}
          /\ \/ Fail("Not logged in")
             \/ Goto("get_me")
          /\ UNCHANGED <<requests, inflight>>
       \/ /\ Send("refresh_token", [op |-> "refresh_token"])
          /\ UNCHANGED <<pc, status, err>>
       \/ /\ Recv("refresh_token")
          /\ \/ Fail("Token refresh failed")
             \/ Goto("get_me")
    /\ UNCHANGED <<hostVars, update_handle, input, returned, gateVars, archives, now, ctx, stderr, products,
                   product_id, release, manifest, cmd, me, slug>>

\* execute_publish(client, namespace, cwd, ctx): the call, up to its first
\* await, list_categories.
execute_publish(c) ==
    /\ ctx' = Some(c)
    /\ Goto("list_categories")

\* cmd_publish from the manifest read to the call of execute_publish or to
\* the await of list_my_products, m being the record read (steps 2 to 4).
publish_resolve(m) ==
    LET c == Unwrap(cmd)
        has_slug == IsSome(m) /\ IsSome(Unwrap(m).slug)
        derived_slug == dir_to_slug(cwd_name)
        s == IF has_slug THEN Unwrap(Unwrap(m).slug) ELSE derived_slug
        product_desc == IF IsSome(c.description_flag) THEN c.description_flag
                        ELSE detect_metadata(dir)[2]
    IN  IF IsSome(m) /\ IsSome(Unwrap(m).origin) /\ ~IsSome(Unwrap(m).product_id)
        THEN Fail("This is a forked product. Use baro remake") /\ UNCHANGED <<slug, ctx>>
        ELSE IF ~has_slug /\ ~contains(STARTING_VERSIONS, c.version)
        THEN Fail("No .baro/manifest.json found") /\ UNCHANGED <<slug, ctx>>
        ELSE IF ~has_slug /\ ~validate_slug(derived_slug)
        THEN Fail("Directory name is not a valid slug") /\ UNCHANGED <<slug, ctx>>
        ELSE /\ slug' = Some(s)
             /\ IF IsSome(c.category)
                THEN execute_publish(PublishContext(s, product_desc, Unwrap(c.category),
                                                    c.version, m))
                ELSE Goto("resolve_category") /\ UNCHANGED ctx

\* cmd_remake from the manifest read to the await of list_my_products, m
\* being the record read (steps 2 to 4).
remake_resolve(m) ==
    LET c == Unwrap(cmd)
        s == IF IsSome(c.slug_flag) THEN Unwrap(c.slug_flag) ELSE dir_to_slug(cwd_name)
    IN  IF ~IsSome(m)
        THEN Fail("No .baro/manifest.json found. This is not a forked product") /\ UNCHANGED slug
        ELSE IF ~IsSome(Unwrap(m).origin)
        THEN Fail("No fork origin in manifest") /\ UNCHANGED slug
        ELSE IF IsSome(Unwrap(m).product_id)
        THEN Fail("Already remade") /\ UNCHANGED slug
        ELSE IF ~validate_slug(s)
        THEN Fail("Invalid slug") /\ UNCHANGED slug
        ELSE slug' = Some(s) /\ Goto("remake_collision")

\* Step 1 of cmd_publish and of cmd_remake, client.get_me().await?, and the
\* code that follows it up to the next await.
get_me ==
    /\ pc = "get_me"
    /\ \/ /\ Send("get_me", [op |-> "get_me"])
          /\ UNCHANGED <<pc, status, err, me, slug, ctx>>
       \/ /\ Recv("get_me")
          /\ \/ Fail("get_me failed") /\ UNCHANGED <<me, slug, ctx>>
             \/ /\ me' = Some(N_me)
                /\ IF Unwrap(cmd).name = "publish"
                   THEN publish_resolve(manifest)
                   ELSE remake_resolve(manifest) /\ UNCHANGED ctx
    /\ UNCHANGED <<hostVars, update_handle, input, returned, gateVars, archives, now, stderr, products, product_id,
                   release, manifest, cmd>>

\* Step 4 of cmd_publish without --category: the category of the product
\* the account already has under the slug, or an error.
resolve_category ==
    /\ pc = "resolve_category"
    /\ \/ /\ Send("list_my_products", [op |-> "list_my_products"])
          /\ UNCHANGED <<pc, status, err, ctx>>
       \/ /\ Recv("list_my_products")
          /\ \/ Fail("list_my_products failed") /\ UNCHANGED ctx
             \/ IF \E ep \in products : ep.slug = Unwrap(slug)
                THEN LET c == Unwrap(cmd)
                         product_desc == IF IsSome(c.description_flag)
                                         THEN c.description_flag
                                         ELSE detect_metadata(dir)[2]
                     IN  execute_publish(PublishContext(Unwrap(slug), product_desc,
                                                        developer_tools, c.version,
                                                        manifest))
                ELSE Fail("Category required for first publish") /\ UNCHANGED ctx
    /\ UNCHANGED <<hostVars, update_handle, input, returned, gateVars, archives, now, stderr, products, product_id,
                   release, manifest, cmd, me, slug>>

\* The context cmd_remake calls execute_publish with (steps 7 to 9).
remake_context ==
    LET c == Unwrap(cmd)
        product_desc == IF IsSome(c.description_flag) THEN c.description_flag
                        ELSE detect_metadata(dir)[2]
    IN  PublishContext(Unwrap(slug), product_desc, Unwrap(c.category), c.version,
                       manifest)

\* Step 5 of cmd_remake, the collision check against the account's own
\* products, and step 6 up to the read of the answer.
remake_collision ==
    /\ pc = "remake_collision"
    /\ \/ /\ Send("list_my_products", [op |-> "list_my_products"])
          /\ UNCHANGED <<pc, status, err, ctx, stderr>>
       \/ /\ Recv("list_my_products")
          /\ \/ Fail("list_my_products failed") /\ UNCHANGED <<ctx, stderr>>
             \/ IF \E ep \in products : ep.slug = Unwrap(slug)
                THEN Fail("Slug is already used by your product") /\ UNCHANGED <<ctx, stderr>>
                ELSE LET origin_parts == splitn2(Unwrap(Unwrap(manifest).origin))
                     IN  IF Len(origin_parts) = 2 /\ origin_parts[1] = Unwrap(me)
                         THEN /\ stderr' = Append(stderr,
                                     [level |-> "PROMPT",
                                      message |-> "You're remaking your own product. Continue? [Y/n]"])
                              /\ Goto("remake_confirm")
                              /\ UNCHANGED ctx
                         ELSE execute_publish(remake_context) /\ UNCHANGED stderr
    /\ UNCHANGED <<hostVars, update_handle, input, returned, gateVars, archives, now, products, product_id,
                   release, manifest, cmd, me, slug>>

\* char::is_whitespace for the characters of the model; LF, CR and TAB stand
\* for the line feed, the carriage return and the tabulator.
is_whitespace(c) == c \in {" ", "LF", "CR", "TAB"}

\* str::trim: the string without the whitespace at its two ends.
trim(s) ==
    LET solid == {i \in DOMAIN s : ~is_whitespace(s[i])}
    IN  IF solid = {} THEN <<>>
        ELSE SubSeq(s, CHOOSE i \in solid : \A k \in solid : i <= k,
                       CHOOSE i \in solid : \A k \in solid : i >= k)

\* str::to_lowercase.
str_to_lowercase(s) == [i \in DOMAIN s |-> to_lowercase(s[i])]

\* The lines read_line may deliver at the prompt: the bare return key, y,
\* YES between blanks, n, a longer answer, and nothing at all at the end of
\* the input.
InputLines ==
    {<<"LF">>, <<"y", "LF">>, <<" ", "Y", "E", "S", " ", "CR", "LF">>,
     <<"n", "LF">>, <<"y", "e", "s", "!", "LF">>, <<>>}

\* Step 6 of cmd_remake: the line read from standard input, trimmed and in
\* lower case; any answer other than the empty one, y and yes cancels, and
\* the command returns Ok; a failing read is an error.
remake_confirm ==
    /\ pc = "remake_confirm"
    /\ \/ \E line \in InputLines :
            LET answer == str_to_lowercase(trim(line))
            IN  /\ input' = Some(line)
                /\ IF answer /= <<>> /\ answer /= <<"y">> /\ answer /= <<"y", "e", "s">>
                   THEN /\ pc' = "exit"
                        /\ status' = Some(0)
                        /\ UNCHANGED <<err, ctx>>
                   ELSE execute_publish(remake_context)
       \/ Fail("failed to read from stdin") /\ UNCHANGED <<input, ctx>>
    /\ UNCHANGED <<hostVars, update_handle, returned, gateVars, archives, now, stderr, requests,
                   products, product_id, release, manifest, cmd, me, slug, inflight>>

\* Step 1, first half: client.list_categories().await?
list_categories ==
    /\ pc = "list_categories"
    /\ \/ /\ Send("list_categories", [op |-> "list_categories"])
          /\ UNCHANGED <<pc, status, err>>
       \/ /\ Recv("list_categories")
          /\ \/ Goto("gate")
             \/ Fail("list_categories failed")
    /\ UNCHANGED <<hostVars, update_handle, input, returned, gateVars, archives, now, ctx, stderr, products,
                   product_id, release, manifest, cmd, me, slug>>

publish_gate_going_on_after_failures ==
    /\ pc = "gate"
    /\ \E listing \in read_dir(dir) :
         LET c == Unwrap(ctx)
             g == run(dir, listing, c.version, c.product_desc, c.category_slug,
                      sample_categories)
         IN  /\ gate' = Some(g)
             /\ call' = [version |-> c.version, description |-> c.product_desc,
                         category_slug |-> c.category_slug,
                         categories |-> sample_categories]
             /\ stderr' = stderr \o [i \in DOMAIN g.failures |->
                                      [level |-> "ERROR", message |-> g.failures[i].message]]
             /\ pc' = "package"
             /\ UNCHANGED status
    /\ UNCHANGED <<hostVars, update_handle, input, returned, archives, now, ctx, requests, products, product_id,
                   release, manifest, cmd, me, slug, err, inflight>>

\* Step 1, second half: publish_gate::run and what execute_publish does with
\* the GateResult: print the failures and exit(1), or print the warnings and
\* go on.
publish_gate ==
    /\ pc = "gate"
    /\ \E listing \in read_dir(dir) :
         LET c == Unwrap(ctx)
             g == run(dir, listing, c.version, c.product_desc, c.category_slug,
                      sample_categories)
         IN  /\ gate' = Some(g)
             /\ call' = [version |-> c.version, description |-> c.product_desc,
                         category_slug |-> c.category_slug,
                         categories |-> sample_categories]
             /\ IF ~g.passed
                THEN /\ stderr' = stderr \o [i \in DOMAIN g.failures |->
                                      [level |-> "ERROR", message |-> g.failures[i].message]]
                     /\ pc' = "exit"
                     /\ status' = Some(1)
                     /\ returned' = Some(1)
                ELSE /\ stderr' = stderr \o [i \in DOMAIN g.warnings |->
                                      [level |-> "WARN", message |-> g.warnings[i].message]]
                     /\ pc' = "package"
                     /\ UNCHANGED <<status, returned>>
    /\ UNCHANGED <<hostVars, update_handle, input, archives, now, ctx, requests, products, product_id,
                   release, manifest, cmd, me, slug, err, inflight>>

\* Step 2: packaging::create_archive(cwd).
package ==
    /\ pc = "package"
    /\ \E order \in Perms(dir) :
         archives' = Append(archives, create_archive(dir, ignored, order, now + 1))
    /\ now' = now + 1
    /\ pc' = "list_my_products"
    /\ UNCHANGED <<hostVars, update_handle, input, returned, gateVars, ctx, stderr, requests, products, product_id,
                   release, manifest, status, cmd, me, slug, err, inflight>>

list_my_products_never_reusing ==
    /\ pc = "list_my_products"
    /\ \/ /\ Send("list_my_products", [op |-> "list_my_products"])
          /\ UNCHANGED <<pc, status, err, product_id>>
       \/ /\ Recv("list_my_products")
          /\ \/ /\ IF IsSome(Unwrap(ctx).product_desc)
                   THEN Goto("create_product")
                   ELSE Fail("Description required (50+ chars) for first publish")
                /\ UNCHANGED product_id
             \/ Fail("list_my_products failed") /\ UNCHANGED product_id
    /\ UNCHANGED <<hostVars, update_handle, input, returned, gateVars, archives, now, ctx, stderr, products,
                   release, manifest, cmd, me, slug>>

\* Step 3, first half: list_my_products and the search for the slug; without
\* a product and without a description the run ends with an error.
list_my_products ==
    /\ pc = "list_my_products"
    /\ \/ /\ Send("list_my_products", [op |-> "list_my_products"])
          /\ UNCHANGED <<pc, status, err, product_id>>
       \/ /\ Recv("list_my_products")
          /\ \/ /\ \E ep \in products : ep.slug = Unwrap(ctx).slug
                /\ product_id' =
                       Some((CHOOSE ep \in products : ep.slug = Unwrap(ctx).slug).id)
                /\ Goto("create_release")
             \/ /\ ~\E ep \in products : ep.slug = Unwrap(ctx).slug
                /\ IF IsSome(Unwrap(ctx).product_desc)
                   THEN Goto("create_product")
                   ELSE Fail("Description required (50+ chars) for first publish")
                /\ UNCHANGED product_id
             \/ Fail("list_my_products failed") /\ UNCHANGED product_id
    /\ UNCHANGED <<hostVars, update_handle, input, returned, gateVars, archives, now, ctx, stderr, products,
                   release, manifest, cmd, me, slug>>

\* Step 3, second half: client.create_product(...).await?
create_product ==
    /\ pc = "create_product"
    /\ \/ /\ Send("create_product",
                  [op |-> "create_product", slug |-> Unwrap(ctx).slug,
                   description |-> Unwrap(Unwrap(ctx).product_desc),
                   category |-> Unwrap(ctx).category_slug])
          /\ UNCHANGED <<pc, status, err, products, product_id>>
       \/ /\ Recv("create_product")
          /\ \/ /\ products' = products \cup {[slug |-> Unwrap(ctx).slug, id |-> "p1"]}
                /\ product_id' = Some("p1")
                /\ Goto("create_release")
             \/ Fail("create_product failed") /\ UNCHANGED <<products, product_id>>
    /\ UNCHANGED <<hostVars, update_handle, input, returned, gateVars, archives, now, ctx, stderr, release, manifest,
                   cmd, me, slug>>

\* Step 4: client.create_release(...).await? with the size and the hash of
\* the archive.
create_release ==
    /\ pc = "create_release"
    /\ \/ /\ LET a == archives[Len(archives)]
             IN  Send("create_release",
                      [op |-> "create_release", slug |-> Unwrap(ctx).slug,
                       version |-> Unwrap(ctx).version, size |-> Len(a.bytes),
                       hash |-> a.hash])
          /\ UNCHANGED <<pc, status, err, release>>
       \/ /\ Recv("create_release")
          /\ \/ /\ release' = Some([release_id |-> "r1", upload_url |-> "u1"])
                /\ Goto("upload_to_r2")
             \/ Fail("create_release failed") /\ UNCHANGED release
    /\ UNCHANGED <<hostVars, update_handle, input, returned, gateVars, archives, now, ctx, stderr, products,
                   product_id, manifest, cmd, me, slug>>

upload_to_r2_not_awaited ==
    /\ pc = "upload_to_r2"
    /\ Send("upload_to_r2",
            [op |-> "upload_to_r2", url |-> Unwrap(release).upload_url,
             data |-> archives[Len(archives)].bytes])
    /\ Goto("confirm_release")
    /\ UNCHANGED <<hostVars, update_handle, input, returned, gateVars, archives, now, ctx, stderr, products,
                   product_id, release, manifest, cmd, me, slug>>

upload_to_r2_rebuilding_archive ==
    /\ pc = "upload_to_r2"
    /\ \/ /\ \E order \in Perms(dir) :
                Send("upload_to_r2",
                     [op |-> "upload_to_r2", url |-> Unwrap(release).upload_url,
                      data |-> create_archive(dir, ignored, order, now + 1).bytes])
          /\ UNCHANGED <<pc, status, err>>
       \/ /\ Recv("upload_to_r2")
          /\ \/ Goto("confirm_release")
             \/ Fail("Upload failed")
    /\ UNCHANGED <<hostVars, update_handle, input, returned, gateVars, archives, now, ctx, stderr, products,
                   product_id, release, manifest, cmd, me, slug>>

upload_to_r2_retrying ==
    /\ pc = "upload_to_r2"
    /\ \/ /\ Send("upload_to_r2",
                  [op |-> "upload_to_r2", url |-> Unwrap(release).upload_url,
                   data |-> archives[Len(archives)].bytes])
          /\ UNCHANGED <<pc, status, err>>
       \/ /\ Recv("upload_to_r2")
          /\ \/ Goto("confirm_release")
             \/ UNCHANGED <<pc, status, err>>
             \/ Fail("Upload failed")
    /\ UNCHANGED <<hostVars, update_handle, input, returned, gateVars, archives, now, ctx, stderr, products,
                   product_id, release, manifest, cmd, me, slug>>

\* Step 5: client.upload_to_r2(&release.upload_url, &archive_bytes).await?
upload_to_r2 ==
    /\ pc = "upload_to_r2"
    /\ \/ /\ Send("upload_to_r2",
                  [op |-> "upload_to_r2", url |-> Unwrap(release).upload_url,
                   data |-> archives[Len(archives)].bytes])
          /\ UNCHANGED <<pc, status, err>>
       \/ /\ Recv("upload_to_r2")
          /\ \/ Goto("confirm_release")
             \/ Fail("Upload failed")
    /\ UNCHANGED <<hostVars, update_handle, input, returned, gateVars, archives, now, ctx, stderr, products,
                   product_id, release, manifest, cmd, me, slug>>

updated_manifest_dropping_provenance(c, id) ==
    Manifest(None, None, None, Some(c.slug), Some(id), Some(Unwrap(me)), c.version)

\* The manifest step 7 writes.
updated_manifest(c, id) ==
    LET m == c.existing_manifest
    IN  Manifest(IF IsSome(m) THEN Unwrap(m).origin ELSE None,
                 IF IsSome(m) THEN Unwrap(m).cloned_at ELSE None,
                 IF IsSome(m) THEN Unwrap(m).file_hash ELSE None,
                 Some(c.slug), Some(id), Some(Unwrap(me)), c.version)

\* Whether step 8 has a call to make for manifest m.
tracks_remake(m) == IsSome(m.origin) /\ Len(splitn2(Unwrap(m.origin))) = 2

\* What manifest::read(..).ok() gives for a manifest.json that std::fs::write
\* has truncated and filled only in part: serde_json rejects every proper
\* prefix of the text of a record, so the record is gone.
read_partial == None

\* Step 7: manifest::write(cwd, &updated_manifest)?: create_dir_all, then
\* std::fs::write, which truncates the file and writes the new text in
\* place. A failure before the file is opened leaves the record as it was; a
\* failure after the truncation leaves a partial file. Without an origin to
\* track the run ends after the write with Ok(()).
write_manifest ==
    LET m == updated_manifest(Unwrap(ctx), Unwrap(product_id))
    IN  \/ /\ manifest' = Some(m)
           /\ IF tracks_remake(m)
              THEN Goto("track_remake")
              ELSE pc' = "exit" /\ status' = Some(0) /\ UNCHANGED err
        \/ Fail("Failed to write manifest") /\ manifest' \in {manifest, read_partial}

confirm_release_writing_whatever_the_answer ==
    /\ pc = "confirm_release"
    /\ \/ /\ Send("confirm_release",
                  [op |-> "confirm_release", release_id |-> Unwrap(release).release_id])
          /\ UNCHANGED <<pc, status, err, manifest>>
       \/ /\ Recv("confirm_release")
          /\ \/ write_manifest
             \/ /\ Fail("confirm_release failed")
                /\ manifest' = Some(updated_manifest(Unwrap(ctx), Unwrap(product_id)))
    /\ UNCHANGED <<hostVars, update_handle, input, returned, gateVars, archives, now, ctx,
                   stderr, products, product_id, release, cmd, me, slug>>

\* Step 6, client.confirm_release(&release.release_id).await?, and step 7,
\* which follows it without an await in between.
confirm_release ==
    /\ pc = "confirm_release"
    /\ \/ /\ Send("confirm_release",
                  [op |-> "confirm_release", release_id |-> Unwrap(release).release_id])
          /\ UNCHANGED <<pc, status, err, manifest>>
       \/ /\ Recv("confirm_release")
          /\ \/ write_manifest
             \/ Fail("confirm_release failed") /\ UNCHANGED manifest
    /\ UNCHANGED <<hostVars, update_handle, input, returned, gateVars, archives, now, ctx, stderr, products,
                   product_id, release, cmd, me, slug>>

track_remake_failing_the_run ==
    /\ pc = "track_remake"
    /\ \/ /\ LET m == Unwrap(manifest)
                 origin_parts == splitn2(Unwrap(m.origin))
             IN  Send("track_remake",
                      [op |-> "track_remake", origin_username |-> origin_parts[1],
                       origin_slug |-> origin_parts[2],
                       product_id |-> Unwrap(product_id),
                       origin_version |-> m.version])
          /\ UNCHANGED <<pc, status, err, stderr>>
       \/ /\ Recv("track_remake")
          /\ \/ UNCHANGED stderr /\ pc' = "exit" /\ status' = Some(0) /\ UNCHANGED err
             \/ /\ stderr' = Append(stderr, [level |-> "Warning",
                                              message |-> "could not track fork"])
                /\ Fail("could not track fork")
    /\ UNCHANGED <<hostVars, update_handle, input, returned, gateVars, archives, now, ctx, products, product_id,
                   release, manifest, cmd, me, slug>>

\* Step 8: client.track_remake(...).await; an error is a warning only, and
\* the run ends with Ok(()).
track_remake ==
    /\ pc = "track_remake"
    /\ \/ /\ LET m == Unwrap(manifest)
                 origin_parts == splitn2(Unwrap(m.origin))
             IN  Send("track_remake",
                      [op |-> "track_remake", origin_username |-> origin_parts[1],
                       origin_slug |-> origin_parts[2],
                       product_id |-> Unwrap(product_id),
                       origin_version |-> m.version])
          /\ UNCHANGED <<pc, status, err, stderr>>
       \/ /\ Recv("track_remake")
          /\ \/ UNCHANGED stderr
             \/ stderr' = Append(stderr, [level |-> "Warning",
                                          message |-> "could not track fork"])
          /\ pc' = "exit"
          /\ status' = Some(0)
          /\ UNCHANGED err
    /\ UNCHANGED <<hostVars, update_handle, input, returned, gateVars, archives, now, ctx, products, product_id,
                   release, manifest, cmd, me, slug>>

Init ==
    /\ dir = {}
    /\ ignored = {}
    /\ call = <<>>
    /\ gate = None
    /\ archives = <<>>
    /\ dest = {}
    /\ destPath = None
    /\ now = 0
    /\ pc = "idle"
    /\ ctx = None
    /\ stderr = <<>>
    /\ requests = <<>>
    /\ products \in {{}, {[slug |-> N_tool, id |-> "p0"]}}
    /\ product_id = None
    /\ release = None
    /\ manifest \in ManifestsOnDisk
    /\ status = None
    /\ cmd = None
    /\ cwd_name \in CwdNames
    /\ me = None
    /\ slug = None
    /\ err = None
    /\ inflight = {}
    /\ update_handle = "none"
    /\ input = None
    /\ returned = None
    /\ NoVersionCheck
    /\ NoFork
    /\ runs = 0

Next ==
    \/ PublishCreateEntry
    \/ main
    \/ check_and_notify
    \/ main_return
    \/ get_token
    \/ get_me
    \/ resolve_category
    \/ remake_collision
    \/ remake_confirm
    \/ list_categories
    \/ publish_gate
    \/ package
    \/ list_my_products
    \/ create_product
    \/ create_release
    \/ upload_to_r2
    \/ confirm_release
    \/ track_remake

\* One run of baro publish or baro remake on every small project directory.
Spec == Init /\ [][Next]_vars

\* ------------------------------------------------------------- baro fork

\* product.rfind('@'): the place of the last '@', 0 standing for None.
rfind(s, c) ==
    IF \E i \in DOMAIN s : s[i] = c
    THEN CHOOSE i \in DOMAIN s : s[i] = c /\ \A j \in (i + 1)..Len(s) : s[j] /= c
    ELSE 0

\* The (user_slug, version) cmd_fork takes from its argument.
fork_identifier(p) ==
    LET idx == rfind(p, "@")
    IN  IF idx > 0
        THEN [user_slug |-> SubSeq(p, 1, idx - 1),
              version |-> Some(SubSeq(p, idx + 1, Len(p)))]
        ELSE [user_slug |-> p, version |-> None]

\* chrono::Utc::now().to_rfc3339(), one text per instant of the clock.
to_rfc3339(t) == <<"T">> \o <<ToString(t)>>

\* The record cmd_fork writes into the new directory.
fork_manifest(username, s, target_version, actual_hash, time) ==
    Manifest(Some(username \o <<"/">> \o s), Some(to_rfc3339(time)),
             Some(actual_hash), None, None, None, target_version)

hash_mismatch_never_found(actual_hash, expected) == FALSE

\* actual_hash != download.file_hash_sha256.
hash_mismatch(actual_hash, expected) == actual_hash /= expected

\* What cmd_fork is asked for: a product, a product at a version, and an
\* identifier without an owner.
ForkProducts ==
    {Origin_bob_tool, Origin_bob_tool \o <<"@">> \o V_0_9_0, N_tool}

\* The archives the storage can deliver: the release asked for and another
\* object.
StoredArchives ==
    {create_archive(d, {}, CHOOSE order \in Perms(d) : TRUE, 1) :
        d \in {setup_valid_dir, {File(<<N_main_rs>>, <<7, 7, 7>>)}}}

\* The hashes the service can declare for a release.
DeclaredHashes == {a.hash : a \in StoredArchives} \cup {<<"a", "b", "c">>}

\* What a run of baro fork leaves alone.
forkIdle == <<dir, ignored, gateVars, archives, now, products, product_id,
              release, cmd, cwd_name, me, slug, returned, versionVars, runs>>

\* cmd_fork(p), up to its first await, auth::get_token.
fork_start(p) ==
    /\ LET id == fork_identifier(p)
           parts == splitn2(id.user_slug)
       IN  IF Len(parts) /= 2
           THEN Fail("Invalid product identifier") /\ UNCHANGED ctx
           ELSE /\ ctx' = Some([username |-> parts[1], slug |-> parts[2],
                                version |-> id.version])
                /\ Goto("fork_get_token")
    /\ UNCHANGED <<forkIdle, dest, destPath, manifest, stderr, requests, inflight,
                   input, download, downloaded>>

cmd_fork ==
    /\ pc = "idle"
    /\ fork_start(product)
    /\ UNCHANGED <<product, update_handle>>

\* auth::get_token in cmd_fork; on Err the prompt goes to stderr and a line
\* is read: an empty answer, y or yes leads to auth::login, any other to
\* the error.
fork_get_token ==
    /\ pc = "fork_get_token"
    /\ \/ /\ inflight = {}
          /\ Goto("fork_get_product")
          /\ UNCHANGED <<requests, inflight, stderr, input>>
       \/ /\ Send("refresh_token", [op |-> "refresh_token"])
          /\ UNCHANGED <<pc, status, err, stderr, input>>
       \/ /\ Recv("refresh_token")
          /\ Goto("fork_get_product")
          /\ UNCHANGED <<stderr, input>>
       \/ /\ IF inflight = {}
             THEN UNCHANGED <<requests, inflight>>
             ELSE Recv("refresh_token")
          /\ stderr' = Append(stderr, [level |-> "Prompt",
                                       message |-> "Login required to fork"])
          /\ \/ \E line \in InputLines :
                  /\ input' = Some(line)
                  /\ IF str_to_lowercase(trim(line)) \in
                            {<<>>, <<"y">>, <<"y", "e", "s">>}
                     THEN Goto("fork_login")
                     ELSE Fail("Run baro login to authenticate")
             \/ Fail("failed to read from stdin") /\ UNCHANGED input
    /\ UNCHANGED <<forkIdle, product, update_handle, dest, destPath, manifest, ctx, download, downloaded>>

\* auth::login().await? and then auth::get_token().await?.
fork_login ==
    /\ pc = "fork_login"
    /\ \/ /\ Send("login", [op |-> "login"])
          /\ UNCHANGED <<pc, status, err>>
       \/ /\ Recv("login")
          /\ \/ Fail("login failed")
             \/ Fail("Not logged in")
             \/ Goto("fork_get_product")
    /\ UNCHANGED <<forkIdle, product, update_handle, dest, destPath, manifest, ctx, stderr, input,
                   download, downloaded>>

\* client.get_product(username, slug) and the choice of target_version.
fork_get_product ==
    /\ pc = "fork_get_product"
    /\ LET c == Unwrap(ctx)
       IN  \/ /\ Send("get_product", [op |-> "get_product", username |-> c.username,
                                      slug |-> c.slug])
              /\ UNCHANGED <<pc, status, err, ctx>>
           \/ /\ Recv("get_product")
              /\ \/ Fail("get_product failed") /\ UNCHANGED ctx
                 \/ \E latest_version \in {None, Some(V_0_9_0), Some(V_2_0_0)} :
                      IF IsSome(c.version)
                      THEN /\ ctx' = Some([c EXCEPT !.version = c.version])
                           /\ Goto("fork_get_download")
                      ELSE IF IsSome(latest_version)
                      THEN /\ ctx' = Some([c EXCEPT !.version = latest_version])
                           /\ Goto("fork_get_download")
                      ELSE Fail("No published releases") /\ UNCHANGED ctx
    /\ UNCHANGED <<forkIdle, product, update_handle, dest, destPath, manifest, stderr, input, download,
                   downloaded>>

\* client.get_download(username, slug, &target_version).
fork_get_download ==
    /\ pc = "fork_get_download"
    /\ LET c == Unwrap(ctx)
       IN  \/ /\ Send("get_download", [op |-> "get_download", username |-> c.username,
                                       slug |-> c.slug, version |-> Unwrap(c.version)])
              /\ UNCHANGED <<pc, status, err, download>>
           \/ /\ Recv("get_download")
              /\ \/ Fail("get_download failed") /\ UNCHANGED download
                 \/ \E h \in DeclaredHashes :
                      /\ download' = Some([download_url |-> "url",
                                           file_hash_sha256 |-> h])
                      /\ Goto("fork_download_from_r2")
    /\ UNCHANGED <<forkIdle, product, update_handle, dest, destPath, manifest, ctx, stderr, input, downloaded>>

\* client.download_from_r2(&download.download_url) and, once the bytes are
\* there, the rest of cmd_fork: the hash, the destination, extract_archive
\* and manifest::write.
fork_download_from_r2 ==
    /\ pc = "fork_download_from_r2"
    /\ LET c == Unwrap(ctx)
           d == Unwrap(download)
           p == <<c.slug>>
       IN  \/ /\ Send("download_from_r2", [op |-> "download_from_r2",
                                           url |-> d.download_url])
              /\ UNCHANGED <<pc, status, err, dest, destPath, manifest, downloaded>>
           \/ /\ Recv("download_from_r2")
              /\ \/ /\ Fail("Failed to download from storage")
                    /\ UNCHANGED <<dest, destPath, manifest, downloaded>>
                 \/ \E a \in StoredArchives :
                      LET actual_hash == format_lower_hex(Sha256(a.bytes))
                      IN  /\ downloaded' = Some(a.bytes)
                          /\ IF hash_mismatch(actual_hash, d.file_hash_sha256)
                             THEN /\ Fail("Hash mismatch")
                                  /\ UNCHANGED <<dest, destPath, manifest>>
                             ELSE IF exists(dest, c.slug)
                             THEN /\ Fail("Directory already exists")
                                  /\ UNCHANGED <<dest, destPath, manifest>>
                             ELSE /\ destPath' = Some(p)
                                  /\ \/ /\ Fail("extract_archive failed")
                                        /\ dest' \in {dest \cup create_dir_all(p),
                                                      extract_archive(a.bytes, dest, p)}
                                        /\ UNCHANGED manifest
                                     \/ /\ dest' = extract_archive(a.bytes, dest, p)
                                        /\ \/ /\ manifest' = Some(fork_manifest(
                                                     c.username, c.slug,
                                                     Unwrap(c.version), actual_hash, now))
                                              /\ pc' = "exit"
                                              /\ status' = Some(0)
                                              /\ UNCHANGED err
                                           \/ /\ Fail("Failed to write manifest")
                                              /\ manifest' \in {manifest, read_partial}
    /\ UNCHANGED <<forkIdle, product, update_handle, ctx, stderr, input, download>>

ForkInit ==
    /\ dir = {}
    /\ ignored = {}
    /\ call = <<>>
    /\ gate = None
    /\ archives = <<>>
    /\ dest \in {{}, {Dir(<<N_tool>>)}}
    /\ destPath = None
    /\ now = 0
    /\ NoPublishRun
    /\ NoVersionCheck
    /\ runs = 0
    /\ product \in ForkProducts
    /\ download = None
    /\ downloaded = None

ForkNext ==
    \/ cmd_fork
    \/ fork_get_token
    \/ fork_login
    \/ fork_get_product
    \/ fork_get_download
    \/ fork_download_from_r2

\* One run of baro fork in a directory that holds the destination or not.
SpecFork == ForkInit /\ [][ForkNext]_vars

\* ------------------------------------------- one command after another

\* The record cmd_init writes.
init_manifest_with_publisher(s) ==
    Manifest(None, None, None, Some(s), None, Some(N_me), <<"0", ".", "0", ".", "0">>)

init_manifest(s) ==
    Manifest(None, None, None, Some(s), None, None, <<"0", ".", "0", ".", "0">>)

\* cmd_init(slug_flag): a record that can be read is reported and left as it
\* is; otherwise the slug is the flag or the directory name, and the new
\* record is written.
cmd_init(slug_flag) ==
    LET s == IF IsSome(slug_flag) THEN Unwrap(slug_flag) ELSE dir_to_slug(cwd_name)
    IN  IF IsSome(manifest)
        THEN pc' = "exit" /\ status' = Some(0) /\ UNCHANGED <<err, manifest>>
        ELSE IF ~validate_slug(s)
        THEN Fail("Invalid slug") /\ UNCHANGED manifest
        ELSE \/ /\ manifest' = Some(init_manifest(s))
                /\ pc' = "exit"
                /\ status' = Some(0)
                /\ UNCHANGED err
             \/ Fail("Failed to write manifest") /\ manifest' \in {manifest, read_partial}

\* The publish and remake commands of the sequences.
RecordCommands ==
    {CommandLine("publish", V_1_0_0, None, c, Some(Repeat("a", 50))) :
        c \in {None, Some(developer_tools)}}
    \cup {CommandLine("remake", V_1_0_0, Some(N_remix), Some(developer_tools),
                       Some(Repeat("a", 50)))}

MaxCommands == 3

\* The directory the commands are about is ./tool: baro fork runs beside it,
\* the other commands inside it.
InProject == exists(dest, N_tool)

\* The files of ./tool.
ProjectFiles ==
    {[e EXCEPT !.path = Tail(e.path)] :
        e \in {x \in dest : Len(x.path) > 1 /\ x.path[1] = N_tool}}

\* baro publish or baro remake, run in the directory.
record_main ==
    /\ InProject
    /\ main_with(RecordCommands)

\* baro init, run in the directory.
record_init ==
    /\ InProject
    /\ pc = "idle"
    /\ \E slug_flag \in {None, Some(N_remix), Some(N_bad_slug)} :
         /\ cmd' = Some([name |-> "init", slug_flag |-> slug_flag])
         /\ cmd_init(slug_flag)
    /\ update_handle' = "running"
    /\ UNCHANGED <<hostVars, input, returned, gateVars, archives, now, ctx, stderr,
                   requests, products, product_id, release, me, slug, inflight>>

\* baro fork of another user's product or of one's own, run beside the
\* directory.
record_fork ==
    /\ pc = "idle"
    /\ product' \in {Origin_bob_tool, Origin_me_tool}
    /\ fork_start(product')
    /\ update_handle' = "running"

\* The process has ended and the user types the next command; after a fork
\* the files of the directory are the ones extracted.
next_command ==
    /\ returned /= None
    /\ runs + 1 < MaxCommands
    /\ runs' = runs + 1
    /\ dir' = IF IsSome(destPath) THEN ProjectFiles ELSE dir
    /\ call' = <<>>
    /\ gate' = None
    /\ archives' = <<>>
    /\ destPath' = None
    /\ pc' = "idle"
    /\ ctx' = None
    /\ stderr' = <<>>
    /\ requests' = <<>>
    /\ product_id' = None
    /\ release' = None
    /\ status' = None
    /\ cmd' = None
    /\ me' = None
    /\ slug' = None
    /\ err' = None
    /\ inflight' = {}
    /\ update_handle' = "none"
    /\ input' = None
    /\ returned' = None
    /\ product' = <<>>
    /\ download' = None
    /\ downloaded' = None
    /\ UNCHANGED <<ignored, dest, now, products, manifest, cwd_name, versionVars>>

RecordInit ==
    /\ \/ dir = setup_valid_dir /\ dest = {Dir(<<N_tool>>)}
       \/ dir = {} /\ dest = {}
    /\ ignored = {}
    /\ call = <<>>
    /\ gate = None
    /\ archives = <<>>
    /\ destPath = None
    /\ now = 0
    /\ NoPublish

RecordNext ==
    \/ record_main
    \/ record_init
    \/ record_fork
    \/ next_command
    \/ main_return
    \/ get_token
    \/ get_me
    \/ resolve_category
    \/ remake_collision
    \/ remake_confirm
    \/ list_categories
    \/ publish_gate
    \/ package
    \/ list_my_products
    \/ create_product
    \/ create_release
    \/ upload_to_r2
    \/ confirm_release
    \/ track_remake
    \/ fork_get_token
    \/ fork_login
    \/ fork_get_product
    \/ fork_get_download
    \/ fork_download_from_r2

\* Commands run one after another on a directory that starts without a
\* record; the version check each of them spawns is never scheduled before
\* main returns.
SpecRecord == RecordInit /\ [][RecordNext]_vars

\* --------------------------------------------- the update check's is_newer

\* str::split('.'): the pieces between the separators, one more than there
\* are separators; an empty string gives one empty piece.
RECURSIVE split(_, _)
split(v, sep) ==
    IF \A i \in 1..Len(v) : v[i] /= sep
    THEN <<v>>
    ELSE LET i == CHOOSE k \in 1..Len(v) :
                      v[k] = sep /\ \A j \in 1..(k - 1) : v[j] /= sep
         IN  <<SubSeq(v, 1, i - 1)>> \o split(SubSeq(v, i + 1, Len(v)), sep)

\* A u64 is kept as its decimal digits without leading zeros (zero is the
\* empty sequence), so that all 64 bits are there.
RECURSIVE strip_zeros(_)
strip_zeros(d) ==
    IF d /= <<>> /\ d[1] = "0" THEN strip_zeros(Tail(d)) ELSE d

DigitValue(c) == CHOOSE n \in 0..9 : ToString(n) = c

U64_MAX ==
    <<"1", "8", "4", "4", "6", "7", "4", "4", "0", "7",
      "3", "7", "0", "9", "5", "5", "1", "6", "1", "5">>

\* Two digit sequences digit by digit: the first differing digit decides and
\* a proper prefix is the smaller one.
digits_lt(a, b) ==
    \E i \in 1..Len(b) :
        /\ \A j \in 1..(i - 1) : j <= Len(a) /\ a[j] = b[j]
        /\ i > Len(a) \/ DigitValue(a[i]) < DigitValue(b[i])

u64_lt_comparing_text(a, b) == digits_lt(a, b)

\* a < b on u64 values.
u64_lt(a, b) ==
    \/ Len(a) < Len(b)
    \/ Len(a) = Len(b) /\ digits_lt(a, b)

\* <u64 as FromStr>::from_str: an optional + sign, then one decimal digit or
\* more; Err on an empty string, on any other character and on a value that
\* does not fit in 64 bits.
parse_u64(s) ==
    LET digits == IF s /= <<>> /\ s[1] = "+" THEN Tail(s) ELSE s
        value  == strip_zeros(digits)
    IN  IF digits = <<>> \/ \E i \in 1..Len(digits) : ~is_ascii_digit(digits[i])
        THEN None
        ELSE IF u64_lt(U64_MAX, value) THEN None ELSE Some(value)

\* filter_map(|s| s.parse().ok()).collect(): the segments that parse, in
\* their order; the others are dropped.
RECURSIVE filter_map_parse(_)
filter_map_parse(segs) ==
    IF segs = <<>> THEN <<>>
    ELSE LET r == parse_u64(Head(segs))
         IN  (IF IsSome(r) THEN <<Unwrap(r)>> ELSE <<>>)
                 \o filter_map_parse(Tail(segs))

parse(v) == filter_map_parse(split(v, "."))

\* Vec<u64>'s PartialOrd: the elements are compared in turn over the common
\* length, and when all of them are equal the lengths are compared.
RECURSIVE vec_gt(_, _)
vec_gt(l, c) ==
    IF l = <<>> THEN FALSE
    ELSE IF c = <<>> THEN TRUE
    ELSE IF Head(l) /= Head(c) THEN u64_lt(Head(c), Head(l))
    ELSE vec_gt(Tail(l), Tail(c))

is_newer(l, c) == vec_gt(parse(l), parse(c))

\* The segments the version strings are made of: small numbers, a sign, a
\* segment that is not a number and a number one above the largest u64.
SegmentSamples ==
    { <<"0">>, <<"9">>, <<"1", "0">>, <<"+", "9">>, <<"r", "c">>,
      <<"1", "8", "4", "4", "6", "7", "4", "4", "0", "7",
        "3", "7", "0", "9", "5", "5", "1", "6", "1", "6">> }

RECURSIVE join_dots(_)
join_dots(segs) ==
    IF Len(segs) = 1 THEN segs[1]
    ELSE segs[1] \o <<".">> \o join_dots(Tail(segs))

\* The version strings of the unit tests and of the release notes.
TestVersions ==
    { <<"0", ".", "3", ".", "1">>, <<"0", ".", "3", ".", "0">>,
      <<"0", ".", "4", ".", "0">>, <<"1", ".", "0", ".", "0">>,
      <<"0", ".", "2", ".", "0">>, <<"0", ".", "1", "0", ".", "0">>,
      <<"0", ".", "9", ".", "0">> }

\* Version strings with a leading zero, an empty segment, no character at
\* all, and the largest u64.
EdgeVersions ==
    { <<"0", "9", ".", "0">>, <<"1", ".", ".", "0">>, <<>>, <<"9", ".">>,
      U64_MAX }

MaxSegments == 2

Versions ==
    TestVersions \cup EdgeVersions \cup
    { join_dots(segs) :
          segs \in UNION {[1..n -> SegmentSamples] : n \in 1..MaxSegments} }

NewerInit ==
    /\ dir = {}
    /\ ignored = {}
    /\ call = <<>>
    /\ gate = None
    /\ archives = <<>>
    /\ dest = {}
    /\ destPath = None
    /\ now = 0
    /\ NoPublishRun
    /\ NoFork
    /\ runs = 0
    /\ latest \in Versions
    /\ current \in Versions
    /\ newer = None

\* One call of is_newer.
is_newer_call ==
    /\ newer = None
    /\ newer' = Some(is_newer(latest, current))
    /\ UNCHANGED <<dir, ignored, gateVars, packVars, cwd_name, forkVars, runs,
                   latest, current>>
    /\ UNCHANGED <<pc, ctx, stderr, requests, products, product_id, release,
                   manifest, status, cmd, me, slug, err, inflight,
                   update_handle, input, returned>>

NewerNext == is_newer_call

\* is_newer on every pair of short version strings.
SpecNewer == NewerInit /\ [][NewerNext]_vars

\* ------------------------------------------ claims on the orchestrator

\* C1: the GateResult of run has passed exactly when failures is empty,
\* whatever the warnings; when the gate has passed, with warnings or
\* without, execute_publish goes on to packaging, and when it has not the
\* process ends with status 1 and nothing packaged.
C1_PassedIffNoFailuresAndWarningsDoNotBlock ==
    IsSome(gate) =>
        LET g == Unwrap(gate)
        IN  /\ g.passed <=> (g.failures = <<>>)
            /\ g.failures = <<>> => (pc = "package" \/ archives /= <<>>)
            /\ g.failures /= <<>> =>
                   (pc = "exit" /\ status = Some(1) /\ archives = <<>>)
            /\ \A i \in DOMAIN g.warnings :
                   g.failures = <<>> =>
                       \E k \in DOMAIN stderr :
                           /\ stderr[k].level = "WARN"
                           /\ stderr[k].message = g.warnings[i].message

\* The gate has passed with both warnings and the archive has been made.
C1_Witness ==
    /\ IsSome(gate)
    /\ Unwrap(gate).passed
    /\ Len(Unwrap(gate).warnings) = 2
    /\ Len(archives) = 1
    /\ pc = "list_my_products"

\* The operations of the requests sent so far, in order.
RequestOps == [i \in DOMAIN requests |-> requests[i].op]

\* How often operation op has been requested.
TimesRequested(op) == Cardinality({i \in DOMAIN requests : requests[i].op = op})

\* The place of a step in the order resolve identity, run gate, package,
\* resolve remote entity, create release, upload, confirm and write the
\* record, track provenance.
StepRank(p) ==
    CASE p = "idle" -> 0
      [] p = "get_token" -> 1
      [] p = "get_me" -> 2
      [] p = "resolve_category" -> 3
      [] p = "remake_collision" -> 3
      [] p = "remake_confirm" -> 4
      [] p = "list_categories" -> 5
      [] p = "gate" -> 6
      [] p = "package" -> 7
      [] p = "list_my_products" -> 8
      [] p = "create_product" -> 9
      [] p = "create_release" -> 10
      [] p = "upload_to_r2" -> 11
      [] p = "confirm_release" -> 12
      [] p = "track_remake" -> 13
      [] p = "exit" -> 14

\* A step is entered from the step before it, and only when that step and
\* all before it have succeeded.
EntersStepAfterSuccess ==
    pc' /= pc =>
        /\ StepRank(pc') > StepRank(pc)
        /\ pc' /= "exit" => (status' = None /\ err' = None)
        /\ pc' = "list_categories" =>
               (pc \in {"get_me", "resolve_category", "remake_collision", "remake_confirm"}
                /\ IsSome(slug') /\ IsSome(me') /\ IsSome(ctx'))
        /\ pc' = "gate" => pc = "list_categories"
        /\ pc' = "package" => (pc = "gate" /\ Unwrap(gate').passed)
        /\ pc' = "list_my_products" => (pc = "package" /\ Len(archives') = 1)
        /\ pc' = "create_product" => pc = "list_my_products"
        /\ pc' = "create_release" =>
               (pc \in {"list_my_products", "create_product"} /\ IsSome(product_id'))
        /\ pc' = "upload_to_r2" => (pc = "create_release" /\ IsSome(release'))
        /\ pc' = "confirm_release" => (pc = "upload_to_r2" /\ inflight' = {})
        /\ pc' = "track_remake" => (pc = "confirm_release" /\ manifest' /= manifest)

\* A request is sent by the step it belongs to, when no other is in flight.
SendsOneRequestAtATime ==
    requests' /= requests =>
        /\ inflight = {}
        /\ Len(requests') = Len(requests) + 1
        /\ LET op == requests'[Len(requests')].op
           IN  \/ op = pc
               \/ op = "refresh_token" /\ pc = "get_token"
               \/ op = "list_my_products" /\ pc \in {"resolve_category", "remake_collision"}

\* Every remote call in flight: those of the command and the request of the
\* background version check.
RemoteCallsInFlight ==
    inflight \cup (IF update_handle = "fetching" THEN {"fetch_latest_version"} ELSE {})

\* The order of the steps: each entered after the success of those before
\* it, none entered twice, each request sent by its own step, the record
\* written when confirm has answered.
StepsInFixedOrder ==
    /\ [][EntersStepAfterSuccess]_vars
    /\ [][SendsOneRequestAtATime]_vars
    /\ [][manifest' /= manifest => (pc = "confirm_release" /\ "confirm_release" \in inflight)]_vars

\* C11 as stated: the steps occur in the fixed order and no two remote calls
\* are in flight at once.
C11_StepsInFixedOrderNoTwoRemoteCallsInFlight ==
    /\ StepsInFixedOrder
    /\ [](Cardinality(RemoteCallsInFlight) <= 1)

\* C11: the steps of a publish run occur in the fixed order, each entered
\* only after the steps before it have succeeded, none entered twice, and at
\* most one remote call of the command is in flight at any time; the request
\* of the background version check may be in flight beside it.
C11_StepsInFixedOrderOnePipelineCallAtATime ==
    /\ StepsInFixedOrder
    /\ [](Cardinality(inflight) <= 1)

\* A remake has run through every step, product creation and provenance
\* tracking included, and has ended with success.
C11_Witness ==
    /\ pc = "exit"
    /\ status = Some(0)
    /\ update_handle = "quiet"
    /\ returned = Some(0)
    /\ RequestOps = <<"get_me", "list_my_products", "list_categories",
                      "list_my_products", "create_product", "create_release",
                      "upload_to_r2", "confirm_release", "track_remake">>

\* The gate of this run has failed.
GateFailed == IsSome(gate) /\ ~Unwrap(gate).passed

\* After a failed gate the run has ended with status 1 and nothing after the
\* gate has run: no archive, no product id, no release, no request after
\* the category list, the record as it was.
NothingAfterFailedGate ==
    /\ pc = "exit"
    /\ status = Some(1)
    /\ archives = <<>>
    /\ product_id = None
    /\ release = None
    /\ manifest = Unwrap(ctx).existing_manifest
    /\ requests[Len(requests)].op = "list_categories"
    /\ TimesRequested("list_categories") = 1

\* C12 as stated: when the gate fails the run ends with a non-zero status,
\* nothing after the gate has run, and the category list is the only request
\* of the run (no product lookup among them).
C12_FailedGateCostsOnlyTheCategoryList ==
    GateFailed =>
        /\ NothingAfterFailedGate
        /\ RequestOps = <<"list_categories">>

\* C12: when the gate fails the run ends with a non-zero status and nothing
\* after the gate has run (no archive, no step 3 product lookup or creation,
\* no release, upload, confirm or record write); the requests of the run are
\* the category list and, before it, those the command made to resolve the
\* identity: token refresh, current user, and the product list when the
\* category is looked up.
C12_FailedGateStopsTheRun ==
    GateFailed =>
        /\ NothingAfterFailedGate
        /\ \A i \in DOMAIN requests :
               requests[i].op \in {"refresh_token", "get_me", "list_my_products",
                                   "list_categories"}
        /\ TimesRequested("list_my_products") <= 1
        /\ TimesRequested("get_me") = 1

\* The gate has failed in a publish run that looked the category up in the
\* product list.
C12_Witness ==
    /\ GateFailed
    /\ Len(Unwrap(gate).failures) >= 2
    /\ RequestOps = <<"get_me", "list_my_products", "list_categories">>
    /\ stderr /= <<>>

\* The record on disk has a fork origin and no remote product id.
ForkedUnpublished(m) ==
    IsSome(m) /\ IsSome(Unwrap(m).origin) /\ ~IsSome(Unwrap(m).product_id)

\* The command of this run is baro publish.
IsPublishRun == IsSome(cmd) /\ Unwrap(cmd).name = "publish"

\* The command of this run is baro remake.
IsRemakeRun == IsSome(cmd) /\ Unwrap(cmd).name = "remake"

\* No step of the pipeline has run: no gate, no archive, no product, no
\* release, no request of execute_publish.
NoPipelineStep ==
    /\ ctx = None
    /\ gate = None
    /\ archives = <<>>
    /\ product_id = None
    /\ release = None
    /\ \A i \in DOMAIN requests :
           requests[i].op \notin {"list_categories", "create_product", "create_release",
                                  "upload_to_r2", "confirm_release", "track_remake"}

\* C13: a publish run on a directory whose record has a fork origin and no
\* product id ends with the error that redirects to remake, without any
\* step of the pipeline and with the record unchanged.
C13_ForkedUnpublishedPublishIsRedirected ==
    (IsPublishRun /\ ForkedUnpublished(manifest)) =>
        /\ NoPipelineStep
        /\ manifest \in ManifestsOnDisk
        /\ pc = "exit" => (/\ status = Some(1)
                           /\ err = Some("This is a forked product. Use baro remake"))

\* The errors of cmd_publish that come from the local state alone.
PublishPreconditionErrors ==
    {"This is a forked product. Use baro remake",
     "No .baro/manifest.json found",
     "Directory name is not a valid slug"}

\* C14: when publish is rejected for a precondition on the local state
\* (forked and unpublished record, no record with a non-starting version,
\* directory name that is no valid slug), no request has been sent before
\* the rejection.
C14_PreconditionFailuresBeforeAnyNetworkCall ==
    (IsPublishRun /\ IsSome(err) /\ Unwrap(err) \in PublishPreconditionErrors) =>
        requests = <<>>

\* The record the command read at its start: the one execute_publish was
\* given, and before that call the one on disk.
RecordRead == IF IsSome(ctx) THEN Unwrap(ctx).existing_manifest ELSE manifest

\* The record read has a slug.
RecordHasSlug == IsSome(RecordRead) /\ IsSome(Unwrap(RecordRead).slug)

\* The requested version is one of 0.0.1, 0.1.0, 1.0.0.
IsStartingVersion(v) ==
    v \in {<<"0", ".", "0", ".", "1">>, <<"0", ".", "1", ".", "0">>,
           <<"1", ".", "0", ".", "0">>}

\* C15: in a publish run the slug of the record is the slug used, whatever
\* the version; without one the run goes on only with a starting version and
\* a valid slug derived from the directory name, which is then the slug
\* used; in every other case the run fails and no pipeline step runs.
C15_PublishIdentityResolution ==
    IsPublishRun =>
        LET v == Unwrap(cmd).version
            derived == dir_to_slug(cwd_name)
            may_derive == IsStartingVersion(v) /\ validate_slug(derived)
        IN  /\ IsSome(slug) =>
                   IF RecordHasSlug THEN slug = Unwrap(RecordRead).slug
                   ELSE may_derive /\ slug = Some(derived)
            /\ IsSome(ctx) => (IsSome(slug) /\ Unwrap(ctx).slug = Unwrap(slug))
            /\ (IsSome(me) /\ ~ForkedUnpublished(RecordRead)
                    /\ (RecordHasSlug \/ may_derive)) => IsSome(slug)
            /\ (~RecordHasSlug /\ ~may_derive) =>
                   /\ slug = None
                   /\ NoPipelineStep
                   /\ pc = "exit" => (status = Some(1) /\ IsSome(err))

\* A publish of version 1.0.0 without a record, in the directory My Tool, has
\* reached the pipeline under the derived slug my-tool.
C15_Witness ==
    /\ IsPublishRun
    /\ RecordRead = None
    /\ Unwrap(cmd).version = V_1_0_0
    /\ cwd_name = <<"M", "y", " ", "T", "o", "o", "l">>
    /\ IsSome(ctx)
    /\ Unwrap(ctx).slug = <<"m", "y", "-", "t", "o", "o", "l">>
    /\ IsSome(gate)

\* The account's product list has a product under the slug of this run.
OwnsSlug == \E ep \in products : ep.slug = Unwrap(ctx).slug

\* The error of step 3 when there is neither a product nor a description.
DescriptionRequired == Some("Description required (50+ chars) for first publish")

\* What the answer of the product list in step 3 leads to.
ResolvesRemoteEntity ==
    (pc = "list_my_products" /\ pc' /= pc /\ err' /= Some("list_my_products failed")) =>
        IF OwnsSlug
        THEN /\ pc' = "create_release"
             /\ \E ep \in products : ep.slug = Unwrap(ctx).slug /\ product_id' = Some(ep.id)
        ELSE IF IsSome(Unwrap(ctx).product_desc)
        THEN pc' = "create_product" /\ product_id' = None
        ELSE pc' = "exit" /\ status' = Some(1) /\ err' = DescriptionRequired

\* C16: when the product list of the account has the slug, its id is reused
\* and create product is never requested; when it has not, create product is
\* requested once, with the description supplied; without a description the
\* run fails before create product and create release, after a gate that
\* passed.
C16_ResolveRemoteEntity ==
    /\ [][ResolvesRemoteEntity]_vars
    /\ [](TimesRequested("create_product") <= 1)
    /\ [](\A i \in DOMAIN requests :
              requests[i].op = "create_product" =>
                  /\ IsSome(Unwrap(ctx).product_desc)
                  /\ requests[i].description = Unwrap(Unwrap(ctx).product_desc)
                  /\ requests[i].slug = Unwrap(ctx).slug
                  /\ RequestOps[i - 1] = "list_my_products")
    /\ []((IsSome(product_id) /\ TimesRequested("create_product") = 0) =>
              \E ep \in products : ep.slug = Unwrap(ctx).slug /\ product_id = Some(ep.id))
    /\ [](err = DescriptionRequired =>
              /\ TimesRequested("create_product") = 0
              /\ TimesRequested("create_release") = 0
              /\ release = None
              /\ Unwrap(gate).passed)

\* A run without a description and without a product has passed the gate and
\* failed at step 3.
C16_Witness ==
    /\ err = DescriptionRequired
    /\ Unwrap(ctx).product_desc = None
    /\ Len(archives) = 1
    /\ products = {}

\* The operations of execute_publish that change something at the remote end.
RemoteOperations ==
    {"create_product", "create_release", "upload_to_r2", "confirm_release", "track_remake"}

\* C17: when the upload fails the run fails, confirm is never requested, the
\* record is not written and nothing is requested after the upload, so the
\* release stays as created; and no remote operation is requested more than
\* once in a run.
C17_UploadFailureIsFatalAndNothingIsRetried ==
    /\ \A op \in RemoteOperations : TimesRequested(op) <= 1
    /\ err = Some("Upload failed") =>
           /\ pc = "exit"
           /\ status = Some(1)
           /\ TimesRequested("confirm_release") = 0
           /\ TimesRequested("track_remake") = 0
           /\ manifest = Unwrap(ctx).existing_manifest
           /\ IsSome(release)
           /\ requests[Len(requests)].op = "upload_to_r2"
           /\ requests[Len(requests) - 1].op = "create_release"

\* The upload of a run that created its product has failed.
C17_Witness ==
    /\ err = Some("Upload failed")
    /\ TimesRequested("create_product") = 1
    /\ IsSome(release)
    /\ inflight = {}

\* The pipeline of this run has ended with success.
PipelineSucceeded == pc = "exit" /\ status = Some(0) /\ IsSome(ctx)

\* The record on disk has the slug, product id, publisher and version
\* resolved in this run and the provenance fields of the record read at its
\* start, absent where that record had none or did not exist.
RecordOfThisRun ==
    /\ IsSome(manifest)
    /\ LET m == Unwrap(manifest)
           r == Unwrap(ctx).existing_manifest
       IN  /\ m.slug = slug
           /\ m.product_id = product_id
           /\ IsSome(product_id)
           /\ m.publisher = me
           /\ IsSome(me)
           /\ m.version = Unwrap(cmd).version
           /\ m.origin = (IF IsSome(r) THEN Unwrap(r).origin ELSE None)
           /\ m.cloned_at = (IF IsSome(r) THEN Unwrap(r).cloned_at ELSE None)
           /\ m.file_hash = (IF IsSome(r) THEN Unwrap(r).file_hash ELSE None)

\* C18: after a successful publish or remake the record on disk has the
\* slug, product id, publisher and version of the run and the provenance
\* fields of the record read at the start; whenever a run has left a
\* record other than the one it read, that is the record it wrote.
C18_RecordWrittenMergesIdentityAndProvenance ==
    /\ PipelineSucceeded => RecordOfThisRun
    /\ (IsSome(ctx) /\ IsSome(manifest) /\ manifest /= Unwrap(ctx).existing_manifest) =>
           RecordOfThisRun

\* A publish of version 2.0.0 on the record of a fork remade before has
\* succeeded: the record keeps origin, cloned_at and file_hash and has the new
\* version.
C18_Witness ==
    /\ PipelineSucceeded
    /\ IsPublishRun
    /\ Unwrap(manifest).origin = Some(Origin_bob_tool)
    /\ Unwrap(manifest).cloned_at = Some("2026-01-01T00:00:00Z")
    /\ Unwrap(manifest).file_hash = Some("abc")
    /\ Unwrap(manifest).version = V_2_0_0
    /\ Unwrap(Unwrap(ctx).existing_manifest).version = V_0_9_0

\* The tracking call has been requested.
TrackRequested == TimesRequested("track_remake") >= 1

\* The tracking call has failed: its warning is on standard error.
TrackFailed == \E i \in DOMAIN stderr : stderr[i].level = "Warning"

\* While the tracking call is under way nothing else changes, and its answer,
\* good or bad, ends the run with success.
TrackChangesNothing ==
    pc = "track_remake" =>
        /\ manifest' = manifest
        /\ products' = products
        /\ release' = release
        /\ pc' /= pc => (pc' = "exit" /\ status' = Some(0) /\ err' = None)

\* C19: the tracking call is requested only after the record has been
\* written, only when that record has a fork origin, and at most once; when
\* it fails the run still ends with success, the record stays as written
\* and no request follows.
C19_TrackingIsBestEffortAfterTheRecord ==
    /\ [][TrackChangesNothing]_vars
    /\ []((pc = "track_remake" \/ TrackRequested) =>
              /\ RecordOfThisRun
              /\ IsSome(Unwrap(manifest).origin)
              /\ TimesRequested("confirm_release") = 1
              /\ TimesRequested("track_remake") <= 1)
    /\ [](TrackRequested => requests[Len(requests)].op = "track_remake")
    /\ [](TrackFailed =>
              /\ TrackRequested
              /\ PipelineSucceeded
              /\ err = None
              /\ RecordOfThisRun)
    /\ []((PipelineSucceeded /\ ~IsSome(Unwrap(manifest).origin)) => ~TrackRequested)

\* The tracking call of a remake has failed and the run has ended with
\* success.
C19_Witness ==
    /\ TrackFailed
    /\ IsRemakeRun
    /\ pc = "exit"
    /\ status = Some(0)
    /\ manifest /= Unwrap(ctx).existing_manifest

\* The characters of a slug besides the hyphen.
SlugChars ==
    {"a", "b", "c", "d", "e", "f", "g", "h", "i", "j", "k", "l", "m", "n", "o", "p",
     "q", "r", "s", "t", "u", "v", "w", "x", "y", "z"} \cup DigitChars

\* A valid slug: not empty, lower-case letters, digits and hyphens only, no
\* hyphen at either end.
IsValidSlug(s) ==
    /\ s /= <<>>
    /\ \A i \in DOMAIN s : s[i] \in SlugChars \cup {"-"}
    /\ s[1] /= "-"
    /\ s[Len(s)] /= "-"

\* The slug a remake run chooses: the flag, or else the lower-cased
\* directory name with hyphens for spaces.
ChosenSlug ==
    IF IsSome(Unwrap(cmd).slug_flag) THEN Unwrap(Unwrap(cmd).slug_flag)
    ELSE dir_to_slug(cwd_name)

\* The conditions of a remake: a record with a fork origin and no product
\* id, a valid slug, and no product of the account under that slug.
RemakeEligible ==
    /\ ForkedUnpublished(manifest)
    /\ IsValidSlug(ChosenSlug)
    /\ ~\E ep \in products : ep.slug = ChosenSlug

\* A remake run calls execute_publish only when eligible, with the chosen
\* slug and the record read.
RemakeStartsPipelineOnlyWhenEligible ==
    (IsRemakeRun /\ ctx = None /\ ctx' /= None) =>
        /\ RemakeEligible
        /\ Unwrap(ctx').slug = ChosenSlug
        /\ Unwrap(ctx').existing_manifest = manifest

\* C20: a remake run starts the pipeline only when the record exists, has a
\* fork origin and no product id, and the chosen slug is valid and is not
\* the slug of a product of the account; otherwise it ends with an error,
\* and without the pipeline no gate, archive, product, release, upload,
\* confirm or record write happens.
C20_RemakeRequiresForkAndFreshValidSlug ==
    /\ [][RemakeStartsPipelineOnlyWhenEligible]_vars
    /\ []((IsRemakeRun /\ ctx = None) =>
              /\ NoPipelineStep
              /\ manifest \in ManifestsOnDisk
              /\ (~RemakeEligible /\ pc = "exit") => (status = Some(1) /\ IsSome(err)))

\* A remake has been refused because the account already has a product under
\* the chosen slug.
C20_Witness ==
    /\ IsRemakeRun
    /\ pc = "exit"
    /\ ForkedUnpublished(manifest)
    /\ IsValidSlug(ChosenSlug)
    /\ \E ep \in products : ep.slug = ChosenSlug
    /\ err = Some("Slug is already used by your product")
    /\ RequestOps = <<"get_me", "list_my_products">>

\* C21: a remake run whose command line has no slug never reaches the
\* pipeline and never requests the creation of a product.
C21_RemakeWithoutSlugNeverReachesPipeline ==
    (IsRemakeRun /\ Unwrap(cmd).slug_flag = None) =>
        /\ ctx = None
        /\ TimesRequested("create_product") = 0

\* C25: the size and the hash of the create release request are the length
\* and the SHA-256 digest, in hexadecimal, of the bytes the upload of the
\* same run sends; the archive is built once, before the release is created,
\* and stays as built.
C25_ReleaseDescribesTheBytesUploaded ==
    /\ [](Len(archives) <= 1)
    /\ [][archives /= <<>> => archives' = archives]_vars
    /\ [](\A i \in DOMAIN requests :
              requests[i].op = "create_release" =>
                  /\ Len(archives) = 1
                  /\ requests[i].size = Len(archives[1].bytes)
                  /\ requests[i].hash = format_lower_hex(Sha256(archives[1].bytes)))
    /\ [](\A j \in DOMAIN requests :
              requests[j].op = "upload_to_r2" =>
                  /\ requests[j].data = archives[1].bytes
                  /\ requests[j - 1].op = "create_release"
                  /\ requests[j - 1].size = Len(requests[j].data)
                  /\ requests[j - 1].hash = format_lower_hex(Sha256(requests[j].data)))

\* An archive with two members has been announced and uploaded.
C25_Witness ==
    /\ TimesRequested("upload_to_r2") = 1
    /\ Cardinality(dir) = 2
    /\ Len(archives[1].bytes) > GZ_HEADER_LEN
    /\ pc = "confirm_release"

\* C26: the origin version of the tracking request of a remake is the
\* version fork wrote into the record the run read, the version of the
\* upstream product the project was forked at.
C26_TrackSendsTheForkedVersion ==
    \A i \in DOMAIN requests :
        (requests[i].op = "track_remake" /\ ForkedUnpublished(RecordRead)) =>
            requests[i].origin_version = Unwrap(RecordRead).version

\* The answers that let a remake of one's own product go on: nothing, y or
\* yes in any mix of cases.
YesWords ==
    {<<>>} \cup {<<a>> : a \in {"y", "Y"}}
           \cup {<<a, b, c>> : a \in {"y", "Y"}, b \in {"e", "E"}, c \in {"s", "S"}}

\* The line is one of these answers between whitespace.
SaysYes(line) ==
    \E i \in 0..Len(line) : \E j \in i..Len(line) :
        /\ SubSeq(line, i + 1, j) \in YesWords
        /\ \A k \in (1..i) \cup ((j + 1)..Len(line)) : line[k] \in {" ", "LF", "CR", "TAB"}

\* The owner part of the origin of the record is the account of this run.
IsSelfFork ==
    /\ IsSome(manifest)
    /\ IsSome(Unwrap(manifest).origin)
    /\ IsSome(me)
    /\ \E k \in DOMAIN Unwrap(Unwrap(manifest).origin) :
           /\ Unwrap(Unwrap(manifest).origin)[k] = "/"
           /\ SubSeq(Unwrap(Unwrap(manifest).origin), 1, k - 1) = Unwrap(me)
           /\ \A h \in 1..(k - 1) : Unwrap(Unwrap(manifest).origin)[h] /= "/"

\* The prompt of the confirmation is on standard error.
Asked == \E i \in DOMAIN stderr : stderr[i].level = "PROMPT"

\* What a remake does at the end of its collision check and with the line
\* read: it asks exactly when the fork is one's own, and goes on exactly when
\* the line says yes.
ConfirmsSelfFork ==
    /\ (pc = "remake_collision" /\ pc' \in {"remake_confirm", "list_categories"}) =>
           /\ (pc' = "remake_confirm") = IsSelfFork
           /\ (pc' = "remake_confirm") = (stderr' /= stderr)
           /\ ctx = None
    /\ (pc = "remake_confirm" /\ IsSome(input')) =>
           IF SaysYes(Unwrap(input'))
           THEN pc' = "list_categories" /\ IsSome(ctx')
           ELSE /\ pc' = "exit"
                /\ status' = Some(0)
                /\ err' = None
                /\ ctx' = None
                /\ manifest' = manifest

\* C27: a remake of a fork of one's own product asks for confirmation
\* before any pipeline step; the pipeline runs only on an empty answer, y or
\* yes in any case, any other answer ends the run with success, without a
\* pipeline step and with the record unchanged; a fork of another account's
\* product is not asked about.
C27_SelfForkNeedsConfirmation ==
    /\ [][ConfirmsSelfFork]_vars
    /\ []((IsRemakeRun /\ pc = "remake_confirm") => (Asked /\ NoPipelineStep))
    /\ []((IsRemakeRun /\ IsSome(ctx) /\ Asked) =>
              (IsSome(input) /\ SaysYes(Unwrap(input))))
    /\ []((IsRemakeRun /\ IsSome(input) /\ ~SaysYes(Unwrap(input))) =>
              /\ pc = "exit"
              /\ status = Some(0)
              /\ NoPipelineStep
              /\ manifest \in ManifestsOnDisk)
    /\ []((IsRemakeRun /\ IsSome(ctx) /\ ~Asked) => input = None)
    /\ [](IsPublishRun => (~Asked /\ input = None))

\* A remake of one's own product has gone on after the answer YES between
\* blanks and has passed the gate.
C27_Witness ==
    /\ IsRemakeRun
    /\ Asked
    /\ input = Some(<<" ", "Y", "E", "S", " ", "CR", "LF">>)
    /\ IsSome(gate)
    /\ Unwrap(gate).passed

\* What the command has done and left behind, the version check apart.
commandVars ==
    <<pc, status, err, ctx, requests, inflight, products, product_id, release,
      manifest, gate, archives, me, slug, input, cmd>>

\* A step of the version check changes nothing of the command; a step of the
\* command changes nothing of the version check, main's spawn apart.
CheckAndCommandApart ==
    /\ (update_handle' /= update_handle /\ pc /= "idle") =>
           (UNCHANGED commandVars /\ UNCHANGED <<stderr, returned>>)
    /\ (commandVars' /= commandVars /\ pc /= "idle") => update_handle' = update_handle

\* C23: whatever the version check does (notice, no notice, failure, panic,
\* still under way), main returns the result of the command; the steps of
\* the check and of the command leave each other's state alone; and once the
\* command has finished main can return without the check having ended.
C23_UpdateCheckNeverAffectsTheCommand ==
    /\ [](IsSome(returned) => (pc = "exit" /\ returned = status))
    /\ [][CheckAndCommandApart]_vars
    /\ [][(pc = "exit" /\ returned' /= returned) => UNCHANGED commandVars]_vars
    /\ []((pc = "exit" /\ returned = None) => ENABLED main_return)

\* main has returned the success of a publish pipeline while the request of
\* the version check was still under way.
C23_Witness ==
    /\ PipelineSucceeded
    /\ returned = Some(0)
    /\ update_handle = "fetching"

\* C28: a write of the record leaves on disk either the record as it was or
\* the complete new record, also when the write fails or is interrupted.
C28_RecordWriteIsAtomic ==
    [][manifest' /= manifest =>
           (IsSome(ctx) /\ IsSome(product_id)
            /\ manifest' = Some(updated_manifest(Unwrap(ctx), Unwrap(product_id))))]_vars

\* The errors of a run that ends before confirm has succeeded.
ErrorsBeforeTheRecord ==
    {"Not logged in", "Token refresh failed", "get_me failed",
     "This is a forked product. Use baro remake", "No .baro/manifest.json found",
     "Directory name is not a valid slug", "list_my_products failed",
     "Category required for first publish",
     "No .baro/manifest.json found. This is not a forked product",
     "No fork origin in manifest", "Already remade", "Invalid slug",
     "Slug is already used by your product", "failed to read from stdin",
     "list_categories failed", "Description required (50+ chars) for first publish",
     "create_product failed", "create_release failed", "Upload failed",
     "confirm_release failed"}

\* The record changes only in the step in which confirm answers with
\* success.
RecordChangesOnlyAtConfirm ==
    manifest' /= manifest =>
        /\ pc = "confirm_release"
        /\ "confirm_release" \in inflight
        /\ err' /= Some("confirm_release failed")
        /\ requests[Len(requests) - 1].op = "upload_to_r2"

Unsigned(seg) == IF seg /= <<>> /\ seg[1] = "+" THEN Tail(seg) ELSE seg

IsNumber(seg) == seg /= <<>> /\ \A i \in 1..Len(seg) : seg[i] \in DigitChars

PadLeft(seg, n) == [i \in 1..(n - Len(seg)) |-> "0"] \o seg

\* The number written s is smaller than the number written t.
NumberLess(s, t) ==
    LET n == IF Len(s) > Len(t) THEN Len(s) ELSE Len(t)
        a == PadLeft(s, n)
        b == PadLeft(t, n)
    IN  \E i \in 1..n :
            /\ \A j \in 1..(i - 1) : a[j] = b[j]
            /\ DigitValue(a[i]) < DigitValue(b[i])

FitsIn64Bits(seg) == ~NumberLess(U64_MAX, seg)

IsU64Segment(seg) == IsNumber(Unsigned(seg)) /\ FitsIn64Bits(Unsigned(seg))

IsNumericSegment(seg) == IsNumber(Unsigned(seg))

\* Tuple a is greater than tuple b: the first position where they differ
\* decides.
TupleGreater(a, b) ==
    \E d \in 1..Len(a) :
        /\ \A j \in 1..(d - 1) :
               /\ j <= Len(b)
               /\ ~NumberLess(a[j], b[j])
               /\ ~NumberLess(b[j], a[j])
        /\ d > Len(b) \/ NumberLess(b[d], a[d])

U64Segments(v) ==
    LET segs == SelectSeq(split(v, "."), IsU64Segment)
    IN  [i \in 1..Len(segs) |-> Unsigned(segs[i])]

NumericSegments(v) ==
    LET segs == SelectSeq(split(v, "."), IsNumericSegment)
    IN  [i \in 1..Len(segs) |-> Unsigned(segs[i])]

V_0_10_0 == <<"0", ".", "1", "0", ".", "0">>

C24_IsNewerComparesTheSegmentsThatFitIn64Bits ==
    IsSome(newer) =>
        /\ Unwrap(newer) <=> TupleGreater(U64Segments(latest), U64Segments(current))
        /\ latest = current => ~Unwrap(newer)
        /\ Unwrap(newer) => ~is_newer(current, latest)
        /\ (latest = V_0_10_0 /\ current = V_0_9_0) => Unwrap(newer)

C24_Witness ==
    /\ newer = Some(TRUE)
    /\ latest = V_0_10_0
    /\ current = V_0_9_0

\* C24 as it is worded: every segment that is a number counts, however long.
C24_IsNewerComparesAllNumericSegments ==
    IsSome(newer) =>
        (Unwrap(newer) <=>
            TupleGreater(NumericSegments(latest), NumericSegments(current)))

\* C22: in fork nothing is written under the working directory unless the
\* hash of the downloaded bytes equals the hash the service declared: on a
\* mismatch the run fails with extract_archive never called and no record
\* written; a run that succeeds leaves a record with origin owner/slug, the
\* version asked of get_download, file_hash the verified hash, and no slug,
\* product id or publisher.
DownloadedHash == format_lower_hex(Sha256(Unwrap(downloaded)))

HashVerified ==
    /\ IsSome(download)
    /\ IsSome(downloaded)
    /\ DownloadedHash = Unwrap(download).file_hash_sha256

ForkWrites ==
    dest' /= dest \/ destPath' /= destPath \/ manifest' /= manifest

ForkedVersion ==
    LET i == CHOOSE k \in DOMAIN requests : requests[k].op = "get_download"
    IN  requests[i].version

MismatchStopsTheFork ==
    (IsSome(download) /\ IsSome(downloaded) /\ ~HashVerified) =>
        /\ pc = "exit"
        /\ status = Some(1)
        /\ err = Some("Hash mismatch")
        /\ destPath = None
        /\ manifest = None
        /\ dest \in {{}, {Dir(<<N_tool>>)}}

ForkSuccessRecord ==
    (pc = "exit" /\ status = Some(0)) =>
        /\ HashVerified
        /\ destPath = Some(<<N_tool>>)
        /\ IsSome(manifest)
        /\ LET m == Unwrap(manifest)
           IN  /\ m.origin = Some(Origin_bob_tool)
               /\ m.version = ForkedVersion
               /\ product = Origin_bob_tool \o <<"@">> \o V_0_9_0 => m.version = V_0_9_0
               /\ m.file_hash = Some(DownloadedHash)
               /\ m.file_hash = Some(Unwrap(download).file_hash_sha256)
               /\ m.slug = None
               /\ m.product_id = None
               /\ m.publisher = None

C22_ForkVerifiesTheHashBeforeWriting ==
    /\ []MismatchStopsTheFork
    /\ []ForkSuccessRecord
    /\ [][ForkWrites => HashVerified']_vars

C22_Witness ==
    /\ err = Some("Hash mismatch")
    /\ IsSome(downloaded)
    /\ Unwrap(download).file_hash_sha256 /= <<"a", "b", "c">>
    /\ dest = {}
    /\ manifest = None

\* C30: from a directory without a record, after any sequence of init, fork,
\* publish and remake, each ending in success or in any of its errors, a
\* record that is there has a product id exactly when it has a publisher,
\* has a slug when it has a product id, and has origin, cloned_at and
\* file_hash all three or none of them; and init leaves a record that is
\* there as it is.
RecordWellFormed ==
    IsSome(manifest) =>
        LET m == Unwrap(manifest)
        IN  /\ IsSome(m.product_id) <=> IsSome(m.publisher)
            /\ IsSome(m.product_id) => IsSome(m.slug)
            /\ \/ IsSome(m.origin) /\ IsSome(m.cloned_at) /\ IsSome(m.file_hash)
               \/ ~IsSome(m.origin) /\ ~IsSome(m.cloned_at) /\ ~IsSome(m.file_hash)

InitRuns == cmd' /= cmd /\ IsSome(cmd') /\ Unwrap(cmd').name = "init"

InitKeepsAnExistingRecord == (InitRuns /\ IsSome(manifest)) => manifest' = manifest

ArchiveMembers(a) == TarParse(GzDecode(a.bytes), 1)

ArchivePaths(a) == {m.path : m \in Range(ArchiveMembers(a))}

\* The five excluded directory names, written out.
ExcludedNames ==
    { <<".", "g", "i", "t">>, <<".", "b", "a", "r", "o">>,
      <<"t", "a", "r", "g", "e", "t">>,
      <<"n", "o", "d", "e", "_", "m", "o", "d", "u", "l", "e", "s">>,
      <<".", "n", "e", "x", "t">> }

HasDotEnvPrefix(name) ==
    Len(name) >= 4 /\ name[1] = "." /\ name[2] = "e" /\ name[3] = "n" /\ name[4] = "v"

\* The directory of tree d at path p, if there is one.
IsDirAt(d, p) == \E e \in d : e.path = p /\ e.kind = "dir"

\* C6: no entry of an archive, file or directory, at any depth, has a name
\* starting with '.env'; and a tree with a file '.env' yields a gate failure
\* that names '.env' and an archive without it.
C6_NoDotEnvEntryInArchive ==
    \A i \in DOMAIN archives :
        /\ \A m \in Range(ArchiveMembers(archives[i])) :
               ~HasDotEnvPrefix(file_name(m.path))
        /\ File(<<DOT_ENV>>, <<83, 61, 120>>) \in dir =>
               /\ \A listing \in read_dir(dir) :
                      \E f \in Range(check_secrets(listing)) : DOT_ENV \in Range(f.names)
               /\ <<DOT_ENV>> \notin ArchivePaths(archives[i])

\* C7: no archived path has a directory component named .git, .baro, target,
\* node_modules or .next: such a directory and all below it are left out,
\* while every entry that neither is nor lies below an excluded directory, a
\* '.env'-prefixed name or an ignored name is archived.
C7_ExcludedDirectoriesNotArchived ==
    \A i \in DOMAIN archives :
        /\ \A p \in ArchivePaths(archives[i]) :
               \A k \in 1..Len(p) :
                   p[k] \in ExcludedNames => ~IsDirAt(dir, SubSeq(p, 1, k))
        /\ \A e \in dir :
               (\A k \in 1..Len(e.path) :
                    /\ ~(e.path[k] \in ExcludedNames /\ IsDirAt(dir, SubSeq(e.path, 1, k)))
                    /\ ~HasDotEnvPrefix(e.path[k])
                    /\ e.path[k] \notin ignored)
               => e.path \in ArchivePaths(archives[i])

\* An excluded directory below the first level, with a file in it, is left
\* out of the archive and the directory beside which it lies is archived.
C7_Witness ==
    /\ Len(archives) >= 1
    /\ dir = {Dir(<<N_src>>), Dir(<<N_src, EXCLUDED_DIRS[3]>>),
              File(<<N_src, EXCLUDED_DIRS[3], N_debug>>, <<2, 2>>)}
    /\ ArchivePaths(archives[1]) = {<<N_src>>}

\* The precondition of the round trip: nothing in the tree is left out.
NothingLeftOut(d, ign) ==
    \A e \in d :
        /\ ~(e.kind = "dir" /\ file_name(e.path) \in ExcludedNames)
        /\ ~HasDotEnvPrefix(file_name(e.path))
        /\ file_name(e.path) \notin ign

\* C8: when nothing of the tree is left out, extracting an archive of it
\* into a destination yields there exactly the tree's relative paths with the
\* same kinds and contents, empty directories included, below the
\* destination and its ancestors, which are created.
C8_RoundTrip ==
    (IsSome(destPath) /\ NothingLeftOut(dir, ignored)) =>
        LET p == Unwrap(destPath)
        IN  /\ \A k \in 1..Len(p) : IsDirAt(dest, SubSeq(p, 1, k))
            /\ \A e \in dir :
                   [path |-> p \o e.path, kind |-> e.kind, content |-> e.content] \in dest
            /\ \A x \in dest :
                   \/ Len(x.path) <= Len(p)
                   \/ /\ SubSeq(x.path, 1, Len(p)) = p
                      /\ [path |-> SubSeq(x.path, Len(p) + 1, Len(x.path)),
                          kind |-> x.kind, content |-> x.content] \in dir
            /\ Cardinality(dest) = Len(p) + Cardinality(dir)

\* A tree with an empty directory, a file with content and a file named like
\* an excluded directory comes back under a destination two levels deep.
C8_Witness ==
    /\ destPath = Some(<<N_tmp, N_out>>)
    /\ ignored = {}
    /\ dir = {Dir(<<N_src>>), File(<<N_main_rs>>, <<7, 7, 7>>),
              File(<<EXCLUDED_DIRS[3]>>, <<1>>)}
    /\ Dir(<<N_tmp, N_out, N_src>>) \in dest
    /\ File(<<N_tmp, N_out, N_main_rs>>, <<7, 7, 7>>) \in dest

LowerHexChars ==
    {"0", "1", "2", "3", "4", "5", "6", "7", "8", "9", "a", "b", "c", "d", "e", "f"}

\* The value of a lowercase hexadecimal digit.
HexValue(c) ==
    CASE c = "0" -> 0 [] c = "1" -> 1 [] c = "2" -> 2 [] c = "3" -> 3
      [] c = "4" -> 4 [] c = "5" -> 5 [] c = "6" -> 6 [] c = "7" -> 7
      [] c = "8" -> 8 [] c = "9" -> 9 [] c = "a" -> 10 [] c = "b" -> 11
      [] c = "c" -> 12 [] c = "d" -> 13 [] c = "e" -> 14 [] c = "f" -> 15

\* C9: the hash of an archive is 64 lowercase hexadecimal characters that
\* spell the SHA-256 digest of the archive's compressed bytes.
C9_HashIsDigestOfCompressedBytes ==
    \A i \in DOMAIN archives :
        LET a == archives[i]
            digest == Sha256(a.bytes)
        IN  /\ Len(a.hash) = 64
            /\ \A k \in DOMAIN a.hash : a.hash[k] \in LowerHexChars
            /\ \A b \in 1..32 :
                   16 * HexValue(a.hash[2 * b - 1]) + HexValue(a.hash[2 * b]) = digest[b]

\* An archive with members, whose digest differs from the digest of its
\* uncompressed content and has a letter among its hexadecimal digits.
C9_Witness ==
    /\ Len(archives) >= 1
    /\ ArchiveMembers(archives[1]) /= <<>>
    /\ Sha256(archives[1].bytes) /= Sha256(GzDecode(archives[1].bytes))
    /\ \E k \in DOMAIN archives[1].hash :
           archives[1].hash[k] \in {"a", "b", "c", "d", "e", "f"}

\* C10, as stated: two calls on the same unchanged tree return the same
\* bytes and the same hash.
C10_ByteIdenticalArchives ==
    \A i, j \in DOMAIN archives : archives[i] = archives[j]

\* C10, amended: two calls on the same unchanged tree archive the same
\* entries, and when the walk yields them in the same order the archives are
\* byte-identical and so are the hashes, whenever the calls are made.
C10_SameEntriesAndSameBytesUnderSameOrder ==
    \A i, j \in DOMAIN archives :
        /\ Range(ArchiveMembers(archives[i])) = Range(ArchiveMembers(archives[j]))
        /\ ArchiveMembers(archives[i]) = ArchiveMembers(archives[j]) =>
               /\ archives[i].bytes = archives[j].bytes
               /\ archives[i].hash = archives[j].hash

\* Two calls at different times whose walks went in the same order over a
\* tree of several entries.
C10_Witness ==
    /\ Len(archives) >= 2
    /\ Len(ArchiveMembers(archives[1])) >= 2
    /\ ArchiveMembers(archives[1]) = ArchiveMembers(archives[2])
    /\ archives[1].bytes = archives[2].bytes

====
